---- MODULE Spec2Model ----
(***************************************************************************)
(* AI Lumiere: the server-side proxy in front of the Groq API.             *)
(*                                                                         *)
(* Three deployment variants carry the same core:                          *)
(*   "plugin"  the Vite dev-server plugin      (src/unnamed/part_000)      *)
(*   "server"  the standalone Express server   (src/unnamed/part_001)      *)
(*   "worker"  the edge worker                 (src/worker/worker.js)      *)
(*                                                                         *)
(* Specifications:                                                         *)
(*   SpecFetch    groqFetch called on its own, any maxRetries              *)
(*   Spec         one POST /api/chat/stream request, from the call of      *)
(*                groqFetch to the end of the relay                        *)
(*   SpecLimiter  the fixed-window rate limiter isLimited                  *)
(*   SpecPolicy   the plugin's two rate-limit policies on one client       *)
(*   SpecBody     the validator and the sanitizer run on one body          *)
(*   SpecRoute    one POST /api/chat or /api/chat/stream request, from     *)
(*                the start of the process to the reply or the relay       *)
(***************************************************************************)
EXTENDS Integers, Sequences, FiniteSets, TLC

VARIABLES
  variant,      \* deployment variant the request runs in
  maxRetries,   \* groqFetch: the maxRetries argument
  fpc,          \* groqFetch: "idle" | "loop" | "fetching" | "sleeping" | "returned" | "threw"
  i,            \* groqFetch: the loop counter (attempt index)
  res,          \* groqFetch: the local res, the last upstream response
  wait,         \* groqFetch: the local wait, the last computed delay
  result,       \* groqFetch: the value returned
  requests,     \* number of upstream fetch() calls issued
  sleeps,       \* number of backoff sleeps started
  hpc,          \* handler: "idle" | "boot" | "exited" | "request" | "validate" | "call" | "awaitGroq" | "streaming" | "done" | "piped" | "escaped"
  head,         \* downstream headers: "none" | "sseSet" (set, not sent) | "sse" (sent) | "json" (sent)
  dstatus,      \* downstream status sent, 0 when none
  dbody,        \* downstream one-shot body: "none" | "upstream" | "generic" | "validator" | "limited" | "misconfigured"
  written,      \* downstream: the chunks given to res.write, as UTF-8 bytes
  endCalls,     \* downstream: number of res.end() calls
  jsonAfterSse, \* sendJson calls made after the event-stream headers were committed
  logs,         \* console.error tags written by the handler
  upRead,       \* upstream stream: the chunks reader.read() has delivered
  upState,      \* upstream stream: "none" | "open" | "closed" | "errored" | "cancelled"
  rpc,          \* pump: "none" | "pending" (a read is awaited) | "done"
  dec,          \* the TextDecoder's state between decode calls
  reads,        \* number of reader.read() calls
  readsAfterClose, \* ... of which issued after the close event
  cancelCalls,  \* number of reader.cancel() calls
  onClose,      \* whether req.on('close', ...) has been registered
  closeAt,      \* -1, or the number of chunks relayed when the close event fired
  rateLimits,   \* the rateLimits map: client key -> entry, NoEntry when absent
  now,          \* the clock read by Date.now()
  calls,        \* number of isLimited calls made
  last,         \* the last isLimited call: its arguments, the time, what it met, its result
  opened,       \* per key, the call that opened its current window and the calls since
  ideal,        \* per policy, the map that policy would keep if it had a map of its own
  lastPolicy,   \* the last policy check: its route, its result, the result on the policy's own map
  keyPresent,   \* whether GROQ_API_KEY is set in the environment
  route,        \* the route of the request: "/api/chat" | "/api/chat/stream" | ...
  body,         \* the parsed request body
  verr,         \* what the validator returned for the body
  errMessage,   \* the message of the error envelope a rejected body is answered with
  payload,      \* the sanitizer's output for the body
  payload2,     \* the sanitizer's output for its own output
  method,       \* the request's method: "GET" | "POST"
  timer,        \* the timer of requestTimeout: "none" | "armed" | "cleared" | "fired"
  gate,         \* what the local rate limiter said of this request: "none" (not asked) | "passed" | "limited"
  closedIn,     \* "none", or where groqFetch stood (fpc) when the close event fired
  tasks,        \* concurrent requests: per task its position, its attempt, its answer, whether it came in during a sleep
  granted,      \* per key, the isLimited calls of its current window that returned false
  cpc,          \* streamChat: "idle" | "fetching" | "reading" | "done" | "failed" | "aborted"
  sse,          \* streamChat: the lines of the response body
  unread,       \* streamChat: the bytes of the response body not read yet
  cutInChar,    \* streamChat: a read has ended between the bytes of a character
  buffer,       \* streamChat: the text of the line not complete yet
  cdec,         \* streamChat: the state of its TextDecoder
  events        \* streamChat: the callbacks invoked so far, in order

fetchVars == <<variant, maxRetries, fpc, i, res, wait, result, requests, sleeps>>
downVars == <<head, dstatus, dbody, written, endCalls, jsonAfterSse, logs>>
relayVars == <<upRead, upState, rpc, dec, reads, readsAfterClose, cancelCalls, onClose>>
handlerVars == <<hpc, downVars, relayVars, closeAt>>

limVars == <<rateLimits, now, calls, last, opened>>

policyVars == <<ideal, lastPolicy>>
taskVars == <<tasks, granted>>
consumerVars == <<cpc, sse, unread, cutInChar, buffer, cdec, events>>
extVars == <<closedIn, taskVars, consumerVars>>
reqVars == <<keyPresent, route, body, verr, errMessage, payload, payload2, method, timer, gate, extVars>>

vars == <<fetchVars, handlerVars, limVars, policyVars, reqVars>>

Variants == {"plugin", "server", "worker"}

(***************************************************************************)
(* Numbers as JavaScript has them here: an integer or NaN.                 *)
(***************************************************************************)
Num(v) == [nan |-> FALSE, v |-> v]
NaN == [nan |-> TRUE, v |-> 0]

(***************************************************************************)
(* Program constants.                                                      *)
(***************************************************************************)
DefaultMaxRetries == 5
WorkerMaxRetries == 3
BackoffBase == 1000
JitterRange == 500
BackoffCap == 32000
WorkerBackoffCap == 16000

(***************************************************************************)
(* Bounds of the model.                                                    *)
(***************************************************************************)
MaxRetriesArg == 6

(***************************************************************************)
(* Upstream responses.  headers.get('retry-after') is null when the header *)
(* is absent, otherwise the header's text, here a sequence of characters:  *)
(* delay-seconds ("0", "2", "60"), the empty string, or an HTTP-date.      *)
(***************************************************************************)
Null == <<"null">>
HttpDate == <<"F", "r", "i", ",", " ", "0", "1">>
RetryAfterValues == {Null, <<>>, <<"0">>, <<"2">>, <<"6", "0">>, HttpDate}

Statuses == {200, 204, 400, 429, 500}

\* Response.ok: the status is in the range 200-299.
Ok(r) == r.status >= 200 /\ r.status <= 299

\* What the upstream can answer.  json: whether the body parses as JSON.
\* The retry-after header is only ever read from a 429 response.
UpstreamResponses ==
  { [src |-> "upstream", status |-> s, ra |-> h, json |-> j] :
      s \in Statuses, h \in RetryAfterValues, j \in BOOLEAN }
  \ { r \in [src : {"upstream"}, status : Statuses, ra : RetryAfterValues, json : BOOLEAN] :
      r.status # 429 /\ r.ra # Null }

NoRes == [src |-> "none", status |-> 0, ra |-> Null, json |-> FALSE]

\* The response groqFetch builds itself once the loop is left.
SynthResponse == [src |-> "synth", status |-> 429, ra |-> Null, json |-> TRUE]

(***************************************************************************)
(* parseInt(s, 10): skip leading white space, read the longest run of      *)
(* decimal digits, NaN when there is none.                                 *)
(***************************************************************************)
Digits == <<"0", "1", "2", "3", "4", "5", "6", "7", "8", "9">>
IsDigit(c) == \E d \in 1..10 : Digits[d] = c
DigitVal(c) == (CHOOSE d \in 1..10 : Digits[d] = c) - 1

RECURSIVE SkipSpace(_)
SkipSpace(s) == IF s # <<>> /\ Head(s) = " " THEN SkipSpace(Tail(s)) ELSE s

RECURSIVE ReadDigits(_, _)
ReadDigits(s, acc) ==
  IF s # <<>> /\ IsDigit(Head(s))
  THEN ReadDigits(Tail(s), 10 * acc + DigitVal(Head(s)))
  ELSE acc

ParseInt(s) ==
  LET t == SkipSpace(s)
  IN IF t # <<>> /\ IsDigit(Head(t)) THEN Num(ReadDigits(t, 0)) ELSE NaN

\* A JavaScript string is truthy unless it is empty; null is falsy.
Truthy(h) == h # Null /\ h # <<>>

Min(a, b) == IF a <= b THEN a ELSE b

RECURSIVE Pow2(_)
Pow2(n) == IF n = 0 THEN 1 ELSE 2 * Pow2(n - 1)

\* Math.random() * 500 lies in [0, 500): three sample points of the range.
Jitters == {0, JitterRange \div 2, JitterRange - 1}

Cap(v) == IF v = "worker" THEN WorkerBackoffCap ELSE BackoffCap

\* const wait = ra ? parseInt(ra, 10) * 1000 : Math.min(1000 * 2 ** i + jitter, cap)
ComputeWait(v, ra, n, jitter) ==
  IF Truthy(ra)
  THEN LET p == ParseInt(ra) IN IF p.nan THEN NaN ELSE Num(p.v * 1000)
  ELSE Num(Min(BackoffBase * Pow2(n) + jitter, Cap(v)))

\* A retry on every error status.
RetriesOnAnyError(v, r, n, m) ==
  /\ r.status >= 400
  /\ (v = "worker" => n < m)

\* The branch that sleeps and retries: status 429 and, in the worker only,
\* i < maxRetries.
Retries(v, r, n, m) ==
  /\ r.status = 429
  /\ (v = "worker" => n < m)

(***************************************************************************)
(* groqFetch                                                               *)
(***************************************************************************)
\* A loop that runs one attempt too many.
LoopContinuesOffByOne(n, m) == n <= m + 1

\* for (let i = 0; i <= maxRetries; i++)
LoopContinues(n, m) == n <= m

\* Loop head with i <= maxRetries: the next fetch() is issued.
GroqFetchAttempt ==
  /\ UNCHANGED <<limVars, policyVars, reqVars>>
  /\ fpc = "loop"
  /\ LoopContinues(i, maxRetries)
  /\ fpc' = "fetching"
  /\ requests' = requests + 1
  /\ UNCHANGED <<variant, maxRetries, i, res, wait, result, sleeps, handlerVars>>

\* Loop head with i > maxRetries: the loop is left and the synthesized
\* response is returned.
GroqFetchExhausted ==
  /\ UNCHANGED <<limVars, policyVars, reqVars>>
  /\ fpc = "loop"
  /\ ~LoopContinues(i, maxRetries)
  /\ fpc' = "returned"
  /\ result' = SynthResponse
  /\ UNCHANGED <<variant, maxRetries, i, res, wait, requests, sleeps, handlerVars>>

\* fetch() resolves with r.
GroqFetchResponse ==
  /\ UNCHANGED <<limVars, policyVars, reqVars>>
  /\ fpc = "fetching"
  /\ \E r \in UpstreamResponses, jitter \in Jitters :
       /\ res' = r
       /\ IF Ok(r)
          THEN /\ fpc' = "returned"
               /\ result' = r
               /\ UNCHANGED <<wait, sleeps>>
          ELSE IF Retries(variant, r, i, maxRetries)
          THEN /\ fpc' = "sleeping"
               /\ wait' = ComputeWait(variant, r.ra, i, jitter)
               /\ sleeps' = sleeps + 1
               /\ UNCHANGED result
          ELSE /\ fpc' = "returned"
               /\ result' = r
               /\ UNCHANGED <<wait, sleeps>>
  /\ UNCHANGED <<variant, maxRetries, i, requests, handlerVars>>

\* fetch() rejects (connection refused, DNS failure): groqFetch has no
\* try/catch, the rejection leaves it.
GroqFetchNetworkError ==
  /\ UNCHANGED <<limVars, policyVars, reqVars>>
  /\ fpc = "fetching"
  /\ fpc' = "threw"
  /\ UNCHANGED <<variant, maxRetries, i, res, wait, result, requests, sleeps, handlerVars>>

\* The timer of the sleep fires: continue, i++.
GroqFetchWake ==
  /\ UNCHANGED <<limVars, policyVars, reqVars>>
  /\ fpc = "sleeping"
  /\ fpc' = "loop"
  /\ i' = i + 1
  /\ UNCHANGED <<variant, maxRetries, res, wait, result, requests, sleeps, handlerVars>>

(***************************************************************************)
(* TextDecoder (UTF-8, not fatal) and the encoding res.write applies to a  *)
(* string.  Bytes are numbers; text is a sequence of code points.  The     *)
(* decoder is the WHATWG UTF-8 decoder restricted to one- and two-byte     *)
(* sequences, which is all the byte alphabet below can form.               *)
(***************************************************************************)
NoCarry == [need |-> 0, cp |-> 0]
Replacement == 65533

RECURSIVE Utf8Decode(_, _, _)
Utf8Decode(st, bytes, acc) ==
  IF bytes = <<>> THEN [text |-> acc, st |-> st]
  ELSE LET b == Head(bytes) IN
    IF st.need = 0
    THEN IF b < 128 THEN Utf8Decode(st, Tail(bytes), Append(acc, b))
         ELSE IF b >= 194 /\ b <= 223
              THEN Utf8Decode([need |-> 1, cp |-> b % 32], Tail(bytes), acc)
              ELSE Utf8Decode(st, Tail(bytes), Append(acc, Replacement))
    ELSE IF b >= 128 /\ b <= 191
         THEN Utf8Decode(NoCarry, Tail(bytes), Append(acc, (st.cp * 64) + (b % 64)))
         \* an invalid continuation: U+FFFD, and the byte is decoded again
         ELSE Utf8Decode(NoCarry, bytes, Append(acc, Replacement))

RECURSIVE Utf8Encode(_)
Utf8Encode(text) ==
  IF text = <<>> THEN <<>>
  ELSE LET c == Head(text) IN
    (IF c < 128 THEN <<c>>
     ELSE IF c < 2048 THEN <<192 + (c \div 64), 128 + (c % 64)>>
     ELSE <<224 + (c \div 4096), 128 + ((c \div 64) % 64), 128 + (c % 64)>>)
    \o Utf8Encode(Tail(text))

\* dec.decode(value) without the stream option: the decoder is flushed at the
\* end of every chunk.
PumpWriteFlushing(st, chunk) ==
  LET d == Utf8Decode(NoCarry, chunk, <<>>)
  IN [out |-> Utf8Encode(IF d.st.need = 0 THEN d.text ELSE Append(d.text, Replacement)),
      st |-> NoCarry]

\* res.write(dec.decode(value, { stream: true })): the bytes that reach the
\* response, and the decoder's state afterwards.
PumpWrite(st, chunk) ==
  LET d == Utf8Decode(st, chunk, <<>>)
  IN [out |-> Utf8Encode(d.text), st |-> d.st]

\* The chunks an upstream read can deliver: 'a' (0x61) and the two bytes of
\* U+00E9 (0xC3 0xA9), whole, split between chunks, or out of place.
Chunks == {<<97>>, <<195>>, <<169>>, <<195, 169>>, <<97, 195>>, <<169, 97>>}

MaxChunks == 2

\* fetch sets a response's body to null for a null-body status.
BodyIsNull(r) == r.status = 204

(***************************************************************************)
(* POST /api/chat/stream, from the call of groqFetch on.                   *)
(***************************************************************************)
IsNode(v) == v \in {"plugin", "server"}

DefaultRetries(v) == IF v = "worker" THEN WorkerMaxRetries ELSE DefaultMaxRetries

\* groqFetch's frame is gone once its caller resumes.
PopFetch ==
  /\ fpc' = "idle"
  /\ i' = 0
  /\ res' = NoRes
  /\ wait' = Num(0)
  /\ UNCHANGED <<variant, maxRetries, result, requests, sleeps>>

\* A reply that always says 200.
SendJsonOk(status, data) ==
  /\ head' = "json"
  /\ dstatus' = 200
  /\ dbody' = data
  /\ endCalls' = IF IsNode(variant) THEN endCalls + 1 ELSE endCalls
  /\ hpc' = "done"

\* sendJson(res, status, data) / res.status(status).json(data) / return json(data, status),
\* with no event-stream header set before.
SendJson(status, data) ==
  /\ head' = "json"
  /\ dstatus' = status
  /\ dbody' = data
  /\ endCalls' = IF IsNode(variant) THEN endCalls + 1 ELSE endCalls
  /\ hpc' = "done"

\* res.headersSent
HeadersSentNever == FALSE

HeadersSent == head # "none"

\* The catch block of the route (plugin, server); the worker has none and the
\* exception leaves its fetch handler.  Once requestTimeout has answered,
\* setting a header throws ERR_HTTP_HEADERS_SENT, in the catch block too.
CatchBeforeStream ==
  IF IsNode(variant)
  THEN /\ logs' = logs \cup {"Error"}
       /\ IF head # "none"
          THEN hpc' = "escaped" /\ UNCHANGED <<head, dstatus, dbody, endCalls>>
          ELSE SendJson(500, "generic")
  ELSE /\ hpc' = "escaped"
       /\ UNCHANGED <<head, dstatus, dbody, endCalls, logs>>

\* if (!groqRes.ok) ... : only an ok response goes on to the relay.
TakesStreamBranchNot429(r) == r.status # 429

TakesStreamBranch(r) == Ok(r)

HandlerCall ==
  /\ UNCHANGED <<limVars, policyVars, reqVars>>
  /\ hpc = "call"
  /\ hpc' = "awaitGroq"
  /\ fpc' = "loop"
  /\ UNCHANGED <<variant, maxRetries, i, res, wait, result, requests, sleeps>>
  /\ UNCHANGED <<downVars, relayVars, closeAt>>

\* await groqFetch(...) rejects.
HandlerFetchThrew ==
  /\ UNCHANGED <<limVars, policyVars, reqVars>>
  /\ hpc = "awaitGroq"
  /\ fpc = "threw"
  /\ CatchBeforeStream
  /\ PopFetch
  /\ UNCHANGED <<written, jsonAfterSse, relayVars, closeAt>>

\* if (!groqRes.ok) { const d = await groqRes.json(); return sendJson(res, groqRes.status, d) }
HandlerNotOk ==
  /\ UNCHANGED <<limVars, policyVars, reqVars>>
  /\ route = "/api/chat/stream"
  /\ hpc = "awaitGroq"
  /\ fpc = "returned"
  /\ ~TakesStreamBranch(result)
  /\ IF result.json
     THEN SendJson(result.status, "upstream") /\ UNCHANGED logs
     ELSE CatchBeforeStream
  /\ PopFetch
  /\ UNCHANGED <<written, jsonAfterSse, relayVars, closeAt>>

\* The ok branch, up to the first await of pump(): the event-stream headers,
\* getReader(), req.on('close'), the first reader.read().  In the worker the
\* body is handed to the runtime in a new Response.
HandlerStreamBegin ==
  /\ UNCHANGED <<limVars, policyVars, reqVars>>
  /\ route = "/api/chat/stream"
  /\ hpc = "awaitGroq"
  /\ fpc = "returned"
  /\ TakesStreamBranch(result)
  /\ PopFetch
  /\ UNCHANGED <<written, upRead, dec, cancelCalls, closeAt>>
  /\ IF variant = "worker"
     THEN /\ head' = "sse" /\ dstatus' = 200 /\ hpc' = "piped"
          /\ UNCHANGED <<dbody, endCalls, jsonAfterSse, logs>>
          /\ UNCHANGED <<upState, rpc, reads, readsAfterClose, onClose>>
     ELSE IF BodyIsNull(result)
     \* groqRes.body is null: getReader() throws a TypeError into the catch block
     THEN /\ logs' = logs \cup {"Error"}
          /\ UNCHANGED <<upState, rpc, reads, readsAfterClose, onClose>>
          /\ IF variant = "plugin"
             \* res.writeHead(200, ...) has committed the headers: sendJson is
             \* called all the same, and its writeHead throws
             \* ERR_HTTP_HEADERS_SENT out of the catch block
             THEN /\ head' = "sse" /\ dstatus' = 200 /\ hpc' = "escaped"
                  /\ jsonAfterSse' = jsonAfterSse + 1
                  /\ UNCHANGED <<dbody, endCalls>>
             \* res.setHeader(...) has only set them: res.status(500).json(...)
             \* sends the envelope under Content-Type: text/event-stream
             ELSE /\ head' = "sse" /\ dstatus' = 500 /\ dbody' = "generic"
                  /\ endCalls' = endCalls + 1 /\ hpc' = "done"
                  /\ UNCHANGED jsonAfterSse
     ELSE /\ head' = (IF variant = "plugin" THEN "sse" ELSE "sseSet")
          /\ dstatus' = (IF variant = "plugin" THEN 200 ELSE 0)
          /\ upState' = "open"
          /\ onClose' = TRUE
          /\ rpc' = "pending"
          /\ reads' = reads + 1
          /\ readsAfterClose' = (IF closeAt # -1 THEN readsAfterClose + 1 ELSE readsAfterClose)
          /\ hpc' = "streaming"
          /\ UNCHANGED <<dbody, endCalls, jsonAfterSse, logs>>

\* A pump whose finally block is missing: the response is left open.
PumpFinishNoEnd ==
  /\ rpc' = "done"
  /\ head' = "sse"
  /\ dstatus' = 200
  /\ UNCHANGED endCalls

\* finally { res.end() }: the first write or the end sends the headers that
\* res.setHeader had set.
PumpFinish ==
  /\ rpc' = "done"
  /\ endCalls' = endCalls + 1
  /\ head' = "sse"
  /\ dstatus' = 200

\* A pending read resolves with a chunk: it is decoded and written, and the
\* loop issues the next read, all before the event loop takes another event.
PumpChunk ==
  /\ UNCHANGED <<limVars, policyVars, reqVars>>
  /\ hpc = "streaming" /\ rpc = "pending" /\ upState = "open"
  /\ Len(upRead) < MaxChunks
  /\ \E c \in Chunks :
       LET w == PumpWrite(dec, c) IN
       /\ upRead' = Append(upRead, c)
       /\ written' = Append(written, w.out)
       /\ dec' = w.st
  /\ head' = "sse" /\ dstatus' = 200
  /\ reads' = reads + 1
  /\ readsAfterClose' = (IF closeAt # -1 THEN readsAfterClose + 1 ELSE readsAfterClose)
  /\ UNCHANGED <<fetchVars, hpc, dbody, endCalls, jsonAfterSse, logs>>
  /\ UNCHANGED <<upState, rpc, cancelCalls, onClose, closeAt>>

\* The pending read resolves with done: break, finally.
PumpEnd ==
  /\ UNCHANGED <<limVars, policyVars, reqVars>>
  /\ hpc = "streaming" /\ rpc = "pending" /\ upState = "open"
  /\ upState' = "closed"
  /\ PumpFinish
  /\ UNCHANGED <<fetchVars, hpc, dbody, written, jsonAfterSse, logs>>
  /\ UNCHANGED <<upRead, dec, reads, readsAfterClose, cancelCalls, onClose, closeAt>>

\* The pending read rejects: catch (logged), finally.
PumpError ==
  /\ UNCHANGED <<limVars, policyVars, reqVars>>
  /\ hpc = "streaming" /\ rpc = "pending" /\ upState = "open"
  /\ upState' = "errored"
  /\ logs' = logs \cup {"Stream error"}
  /\ PumpFinish
  /\ UNCHANGED <<fetchVars, hpc, dbody, written, jsonAfterSse>>
  /\ UNCHANGED <<upRead, dec, reads, readsAfterClose, cancelCalls, onClose, closeAt>>

\* A cancellation that leaves the pending read pending.
CloseListenerLeavesPending ==
  /\ cancelCalls' = cancelCalls + 1
  /\ upState' = (IF rpc = "pending" THEN "cancelled" ELSE upState)
  /\ UNCHANGED <<rpc, endCalls, head, dstatus>>

\* A listener that does not cancel the reader.
CloseListenerNoCancel ==
  UNCHANGED <<cancelCalls, upState, rpc, endCalls, head, dstatus>>

\* The listener registered by req.on('close', ...): reader.cancel().catch(...).
\* Cancelling closes the stream, so the pending read resolves with done and
\* the pump leaves its loop.
CloseListener ==
  /\ cancelCalls' = cancelCalls + 1
  /\ IF rpc = "pending"
     THEN upState' = "cancelled" /\ PumpFinish
     ELSE UNCHANGED <<upState, rpc, endCalls, head, dstatus>>

\* The request's close event, emitted at most once; it reaches only a
\* listener that is already registered.
ClientClose ==
  /\ UNCHANGED <<limVars, policyVars, taskVars, consumerVars>>
  /\ UNCHANGED <<keyPresent, route, body, verr, errMessage, payload, payload2, method, timer, gate>>
  /\ hpc # "idle"
  /\ closeAt = -1
  /\ closeAt' = Len(written)
  /\ closedIn' = fpc
  /\ IF onClose
     THEN CloseListener
     ELSE UNCHANGED <<cancelCalls, upState, rpc, endCalls, head, dstatus>>
  /\ UNCHANGED <<fetchVars, hpc, dbody, written, jsonAfterSse, logs>>
  /\ UNCHANGED <<upRead, dec, reads, readsAfterClose, onClose>>

(***************************************************************************)
(* The rate limiter.                                                       *)
(***************************************************************************)
Keys == {"ip1", "ip2"}

MaxLimit == 2
MaxWindow == 2
MaxNow == 4
MaxCalls == 4

NoEntry == [count |-> 0, reset |-> -1]

\* A limiter that stops counting once the limit is reached.
IsLimitedStopsCounting(map, ip, max, windowMs, t) ==
  LET e == map[ip] IN
  IF e = NoEntry \/ t > e.reset
  THEN [map |-> [map EXCEPT ![ip] = [count |-> 1, reset |-> t + windowMs]], ret |-> FALSE]
  ELSE IF e.count >= max
  THEN [map |-> map, ret |-> TRUE]
  ELSE [map |-> [map EXCEPT ![ip].count = e.count + 1], ret |-> FALSE]

\* A limiter that refuses the max-th call already.
IsLimitedOffByOne(map, ip, max, windowMs, t) ==
  LET e == map[ip] IN
  IF e = NoEntry \/ t > e.reset
  THEN [map |-> [map EXCEPT ![ip] = [count |-> 1, reset |-> t + windowMs]], ret |-> FALSE]
  ELSE [map |-> [map EXCEPT ![ip].count = e.count + 1], ret |-> e.count + 1 >= max]

\* isLimited(ip, max, windowMs), with t the value of Date.now(): the map
\* afterwards and the value returned.
IsLimited(map, ip, max, windowMs, t) ==
  LET e == map[ip] IN
  IF e = NoEntry \/ t > e.reset
  THEN [map |-> [map EXCEPT ![ip] = [count |-> 1, reset |-> t + windowMs]], ret |-> FALSE]
  ELSE [map |-> [map EXCEPT ![ip].count = e.count + 1], ret |-> e.count + 1 > max]

NoCall == [key |-> "none", max |-> 0, windowMs |-> 0, at |-> 0, fresh |-> FALSE,
           before |-> 0, ret |-> FALSE]
NoWindow == [at |-> -1, windowMs |-> 0, since |-> 0]

\* Whether, at time t, the key has no window or its window has elapsed.
Elapsed(o, t) == o = NoWindow \/ t > o.at + o.windowMs

LimiterCall ==
  /\ calls < MaxCalls
  /\ \E ip \in Keys, max \in 1..MaxLimit, windowMs \in 1..MaxWindow :
       LET r == IsLimited(rateLimits, ip, max, windowMs, now)
           fresh == Elapsed(opened[ip], now)
       IN /\ rateLimits' = r.map
          /\ last' = [key |-> ip, max |-> max, windowMs |-> windowMs, at |-> now,
                      fresh |-> fresh, before |-> opened[ip].since, ret |-> r.ret]
          /\ opened' = [opened EXCEPT ![ip] =
                          IF fresh
                          THEN [at |-> now, windowMs |-> windowMs, since |-> 1]
                          ELSE [opened[ip] EXCEPT !.since = @ + 1]]
  /\ calls' = calls + 1
  /\ UNCHANGED <<now, fetchVars, handlerVars, policyVars, reqVars>>

\* Time passes.
Tick ==
  /\ now < MaxNow
  /\ now' = now + 1
  /\ UNCHANGED <<rateLimits, calls, last, opened, fetchVars, handlerVars, policyVars, reqVars>>

(***************************************************************************)
(* The rate-limit policies of the dev-server plugin: the two call sites    *)
(* of isLimited.  Both pass the client address as the key, and both read   *)
(* and write the one rateLimits map.                                       *)
(***************************************************************************)
ChatMax == 20
TranscribeMax == 30
PolicyWindowMs == 60000

MaxPolicyCalls == 22
PolicyStepMs == 30001
MaxPolicySteps == 2

ChatUrls == {"/api/chat", "/api/chat/stream"}
TranscribeUrl == "/api/audio/transcribe"

\* req.socket.remoteAddress || '0' of the one client observed.
ClientIp == "ip1"

Policies == {"chat", "transcribe"}
NoPolicyCall == [url |-> "none", policy |-> "none", ret |-> FALSE, alone |-> FALSE]

\* One isLimited(ip, max, 60000) call of the handler, for the policy named.
\* ideal[policy] follows the same function on a map no other policy touches.
PolicyCheck(url, policy, max) ==
  LET r == IsLimited(rateLimits, ClientIp, max, PolicyWindowMs, now)
      own == IsLimited(ideal[policy], ClientIp, max, PolicyWindowMs, now)
  IN /\ calls < MaxPolicyCalls
     /\ calls' = calls + 1
     /\ rateLimits' = r.map
     /\ ideal' = [ideal EXCEPT ![policy] = own.map]
     /\ lastPolicy' = [url |-> url, policy |-> policy, ret |-> r.ret, alone |-> own.ret]

\* if (url.startsWith('/api/chat') && isLimited(ip, 20, 60000))
ChatLimit ==
  /\ \E url \in ChatUrls : PolicyCheck(url, "chat", ChatMax)
  /\ UNCHANGED <<now, last, opened, fetchVars, handlerVars, reqVars>>

\* if (url === '/api/audio/transcribe' ...) { if (isLimited(ip, 30, 60000)) ...
TranscribeLimit ==
  /\ PolicyCheck(TranscribeUrl, "transcribe", TranscribeMax)
  /\ UNCHANGED <<now, last, opened, fetchVars, handlerVars, reqVars>>

\* Time passes between two requests.
PolicyTick ==
  /\ now < MaxPolicySteps * PolicyStepMs
  /\ now' = now + PolicyStepMs
  /\ UNCHANGED <<rateLimits, calls, last, opened, fetchVars, handlerVars, policyVars, reqVars>>

PolicyIdle ==
  /\ ideal = [p \in Policies |-> [k \in Keys |-> NoEntry]]
  /\ lastPolicy = NoPolicyCall

(***************************************************************************)
(* JavaScript values, as far as the validator and the sanitizer look at    *)
(* them.  A string is its text and its length; a number is held in tenths  *)
(* so that 0.7 and 1.5 have a value; an object is a function from its own  *)
(* property names to values.                                               *)
(***************************************************************************)
Undefined == [t |-> "undefined"]
JNull == [t |-> "null"]
JBool(b) == [t |-> "bool", b |-> b]
JNum(tenths) == [t |-> "num", v |-> tenths]
Str(text, len) == [t |-> "str", s |-> text, len |-> len]
Arr(seq) == [t |-> "arr", a |-> seq]
Obj(props) == [t |-> "obj", o |-> props]

Tenths(n) == n * 10

\* typeof x
TypeOf(x) ==
  CASE x.t = "undefined" -> "undefined"
    [] x.t = "bool" -> "boolean"
    [] x.t = "num" -> "number"
    [] x.t = "str" -> "string"
    [] OTHER -> "object"

\* The truth value of x in a condition: !x is its negation.
ToBoolean(x) ==
  CASE x.t \in {"undefined", "null"} -> FALSE
    [] x.t = "bool" -> x.b
    [] x.t = "num" -> x.v # 0
    [] x.t = "str" -> x.len # 0
    [] OTHER -> TRUE

\* Whether reading a property of x throws a TypeError.
Nullish(x) == x.t \in {"undefined", "null"}

\* x.name for a value x that is not nullish.
Get(x, name) ==
  IF x.t = "obj" /\ name \in DOMAIN x.o THEN x.o[name] ELSE Undefined

\* x?.name
OptGet(x, name) == IF Nullish(x) THEN Undefined ELSE Get(x, name)

IsArray(x) == x.t = "arr"

\* x === 'text' for a string literal.
Is(x, text) == x.t = "str" /\ x.s = text

\* Number(text) for the strings the requests carry.
StringToNumber(x) ==
  CASE x.len = 0 -> Num(0)
    [] x.s = "1.5" -> Num(15)
    [] x.s = "100" -> Num(Tenths(100))
    [] OTHER -> NaN

\* Number(x)
ToNumber(x) ==
  CASE x.t = "undefined" -> NaN
    [] x.t = "null" -> Num(0)
    [] x.t = "bool" -> IF x.b THEN Num(Tenths(1)) ELSE Num(0)
    [] x.t = "num" -> Num(x.v)
    [] x.t = "str" -> StringToNumber(x)
    [] x.t = "arr" -> IF x.a = <<>> THEN Num(0)
                      ELSE IF Len(x.a) = 1 /\ x.a[1].t = "num" THEN Num(x.a[1].v)
                      ELSE IF Len(x.a) = 1 /\ x.a[1].t = "str" THEN StringToNumber(x.a[1])
                      ELSE IF Len(x.a) = 1 /\ Nullish(x.a[1]) THEN Num(0)
                      ELSE NaN
    [] OTHER -> NaN

(***************************************************************************)
(* The validator.                                                          *)
(***************************************************************************)
ALLOWED_MODELS ==
  {"openai/gpt-oss-120b", "openai/gpt-oss-20b",
   "meta-llama/llama-4-scout-17b-16e-instruct",
   "moonshotai/kimi-k2-instruct-0905", "qwen/qwen3-32b", "llama-3.1-8b-instant"}

MAX_MSG_LEN == 32000
MAX_MSGS == 100

Roles == {"user", "assistant", "system"}

\* An allow-list that lets every non-empty string through.
ModelAllowedAnyName(x) == x.t = "str" /\ x.len > 0

\* ALLOWED_MODELS.has(x)
ModelAllowed(x) == x.t = "str" /\ x.s \in ALLOWED_MODELS

\* ['user', 'assistant', 'system'].includes(x)
RoleListed(x) == x.t = "str" /\ x.s \in Roles

NoArg == [t |-> "none"]

\* What the validator does: it returns null, returns a message, or throws.
\* rule is the number of the check that returned the message; arg is the
\* value a template message interpolates.
Valid == [kind |-> "ok", rule |-> 0, text |-> "", arg |-> NoArg]
Threw == [kind |-> "throw", rule |-> 0, text |-> "TypeError", arg |-> NoArg]
Reject(rule, text, arg) == [kind |-> "err", rule |-> rule, text |-> text, arg |-> arg]

\* The message of each check.  The standalone server has its own texts,
\* three of them in Russian (given here in Latin letters) and one of those
\* with the model interpolated.
MessageOf(v, rule, inPart, model) ==
  IF v = "server"
  THEN CASE rule = 1 -> Reject(1, "Invalid request body", NoArg)
         [] rule = 2 -> Reject(2, "Neizvestnaya model: ${body.model}", model)
         [] rule = 3 -> Reject(3, "Messages array is required", NoArg)
         [] rule = 4 -> Reject(4, "Maksimum 100 soobshcheniy v kontekste", NoArg)
         [] rule = 5 -> Reject(5, "Invalid message role", NoArg)
         [] rule = 6 -> IF inPart
                        THEN Reject(6, "Message too long", NoArg)
                        ELSE Reject(6, "Soobshchenie slishkom dlinnoe (maks. 32000 simvolov)", NoArg)
         [] rule = 7 -> Reject(7, "Invalid content part", NoArg)
         [] rule = 8 -> Reject(8, "Content must be string or array", NoArg)
  ELSE CASE rule = 1 -> Reject(1, "Invalid body", NoArg)
         [] rule = 2 -> Reject(2, "Unknown model", NoArg)
         [] rule = 3 -> Reject(3, "No messages", NoArg)
         [] rule = 4 -> Reject(4, "Too many messages", NoArg)
         [] rule = 5 -> Reject(5, "Invalid role", NoArg)
         [] rule = 6 -> Reject(6, "Message too long", NoArg)
         [] rule = 7 -> Reject(7, "Invalid content part", NoArg)
         [] rule = 8 -> Reject(8, "Content must be string or array", NoArg)

\* A part check that refuses a text of exactly MAX_MSG_LEN characters.
ValidatePartAtLimit(v, part) ==
  IF Nullish(part) THEN Threw
  ELSE IF Is(Get(part, "type"), "text") /\ TypeOf(Get(part, "text")) = "string"
  THEN IF Get(part, "text").len >= MAX_MSG_LEN
       THEN MessageOf(v, 6, TRUE, NoArg)
       ELSE Valid
  ELSE IF /\ Is(Get(part, "type"), "image_url")
          /\ ToBoolean(OptGet(Get(part, "image_url"), "url"))
  THEN Valid
  ELSE MessageOf(v, 7, TRUE, NoArg)

\* The body of the inner loop, for one part of an array content.
ValidatePart(v, part) ==
  IF Nullish(part) THEN Threw
  ELSE IF Is(Get(part, "type"), "text") /\ TypeOf(Get(part, "text")) = "string"
  THEN IF Get(part, "text").len > MAX_MSG_LEN
       THEN MessageOf(v, 6, TRUE, NoArg)
       ELSE Valid
  ELSE IF /\ Is(Get(part, "type"), "image_url")
          /\ ToBoolean(OptGet(Get(part, "image_url"), "url"))
  THEN Valid
  ELSE MessageOf(v, 7, TRUE, NoArg)

\* for (const part of m.content) ...
RECURSIVE ValidateParts(_, _)
ValidateParts(v, parts) ==
  IF parts = <<>> THEN Valid
  ELSE LET r == ValidatePart(v, Head(parts))
       IN IF r # Valid THEN r ELSE ValidateParts(v, Tail(parts))

\* The server also rejects a role that is falsy before it looks it up.
RoleOk(v, role) ==
  IF v = "server" THEN ToBoolean(role) /\ RoleListed(role) ELSE RoleListed(role)

\* A message whose content is checked before its role.
ValidateMessageContentFirst(v, m) ==
  IF Nullish(m) THEN Threw
  ELSE LET c == Get(m, "content") IN
       IF TypeOf(c) = "string" /\ c.len > MAX_MSG_LEN
       THEN MessageOf(v, 6, FALSE, NoArg)
       ELSE IF ~RoleOk(v, Get(m, "role")) THEN MessageOf(v, 5, FALSE, NoArg)
       ELSE IF TypeOf(c) = "string" THEN Valid
       ELSE IF IsArray(c) THEN ValidateParts(v, c.a)
       ELSE MessageOf(v, 8, FALSE, NoArg)

\* The body of the outer loop, for one message.
ValidateMessage(v, m) ==
  IF Nullish(m) THEN Threw
  ELSE IF ~RoleOk(v, Get(m, "role")) THEN MessageOf(v, 5, FALSE, NoArg)
  ELSE LET c == Get(m, "content") IN
       IF TypeOf(c) = "string"
       THEN IF c.len > MAX_MSG_LEN THEN MessageOf(v, 6, FALSE, NoArg) ELSE Valid
       ELSE IF IsArray(c) THEN ValidateParts(v, c.a)
       ELSE MessageOf(v, 8, FALSE, NoArg)

\* The iterations lo..hi of the outer loop, in order, up to the first one
\* that returns or throws (split in halves to keep the evaluation shallow).
RECURSIVE ValidateRange(_, _, _, _)
ValidateRange(v, msgs, lo, hi) ==
  IF lo > hi THEN Valid
  ELSE IF lo = hi THEN ValidateMessage(v, msgs[lo])
  ELSE LET mid == (lo + hi) \div 2
           r == ValidateRange(v, msgs, lo, mid)
       IN IF r # Valid THEN r ELSE ValidateRange(v, msgs, mid + 1, hi)

\* for (const m of body.messages) ...
ValidateMessages(v, msgs) == ValidateRange(v, msgs, 1, Len(msgs))

\* A validator that does not look at the length of an empty messages array.
ValidateBodyEmptyAllowed(v, b) ==
  IF ~ToBoolean(b) \/ TypeOf(b) # "object" THEN MessageOf(v, 1, FALSE, NoArg)
  ELSE IF ~ToBoolean(Get(b, "model")) \/ ~ModelAllowed(Get(b, "model"))
  THEN MessageOf(v, 2, FALSE, Get(b, "model"))
  ELSE IF ~IsArray(Get(b, "messages")) THEN MessageOf(v, 3, FALSE, NoArg)
  ELSE IF Len(Get(b, "messages").a) > MAX_MSGS THEN MessageOf(v, 4, FALSE, NoArg)
  ELSE ValidateMessages(v, Get(b, "messages").a)

\* validateBody(body), and validateChatBody(body) for the server.
ValidateBody(v, b) ==
  IF ~ToBoolean(b) \/ TypeOf(b) # "object" THEN MessageOf(v, 1, FALSE, NoArg)
  ELSE IF ~ToBoolean(Get(b, "model")) \/ ~ModelAllowed(Get(b, "model"))
  THEN MessageOf(v, 2, FALSE, Get(b, "model"))
  ELSE IF ~IsArray(Get(b, "messages")) \/ Len(Get(b, "messages").a) = 0
  THEN MessageOf(v, 3, FALSE, NoArg)
  ELSE IF Len(Get(b, "messages").a) > MAX_MSGS THEN MessageOf(v, 4, FALSE, NoArg)
  ELSE ValidateMessages(v, Get(b, "messages").a)

(***************************************************************************)
(* The sanitizer.                                                          *)
(***************************************************************************)
DefaultTemperatureTenths == 7
MinTemperature == 0
MaxTemperature == 2
DefaultMaxTokens == 4096
MaxTokensCap == 16384

Max(a, b) == IF a > b THEN a ELSE b

\* n || d for a number n and a number d: d when n is 0 or NaN.
OrDefault(n, d) == IF n.nan \/ n.v = 0 THEN d ELSE n.v

\* Math.min(Math.max(Number(t) || 0.7, 0), 2), in tenths.
Temperature(t) ==
  Min(Max(OrDefault(ToNumber(t), DefaultTemperatureTenths), Tenths(MinTemperature)),
      Tenths(MaxTemperature))

\* Math.min(Number(m) || 4096, 16384), in tenths.
MaxTokens(m) ==
  Min(OrDefault(ToNumber(m), Tenths(DefaultMaxTokens)), Tenths(MaxTokensCap))

\* The function mapped over an array content.
SanitizePart(p) ==
  IF Is(Get(p, "type"), "image_url")
  THEN Obj([type |-> Str("image_url", 9),
            image_url |-> Obj([url |-> Get(Get(p, "image_url"), "url")])])
  ELSE Obj([type |-> Str("text", 4), text |-> Get(p, "text")])

\* A message handed on as it came when its content is a string.
SanitizeMessageAsIs(m) ==
  IF IsArray(Get(m, "content"))
  THEN Obj([role |-> Get(m, "role"),
            content |-> Arr([k \in 1..Len(Get(m, "content").a) |->
                               SanitizePart(Get(m, "content").a[k])])])
  ELSE m

\* The function mapped over body.messages.
SanitizeMessage(m) ==
  IF IsArray(Get(m, "content"))
  THEN Obj([role |-> Get(m, "role"),
            content |-> Arr([k \in 1..Len(Get(m, "content").a) |->
                               SanitizePart(Get(m, "content").a[k])])])
  ELSE Obj([role |-> Get(m, "role"), content |-> Get(m, "content")])

\* sanitize(body), and sanitizeParams(body) for the server.
Sanitize(b) ==
  Obj([model |-> Get(b, "model"),
       messages |-> Arr([k \in 1..Len(Get(b, "messages").a) |->
                           SanitizeMessage(Get(b, "messages").a[k])]),
       temperature |-> JNum(Temperature(Get(b, "temperature"))),
       max_tokens |-> JNum(MaxTokens(Get(b, "max_tokens")))])

(***************************************************************************)
(* The request bodies the validator and the sanitizer are run on.          *)
(***************************************************************************)
NoValue == [t |-> "none"]
NoVerdict == [kind |-> "none", rule |-> 0, text |-> "", arg |-> NoArg]

Empty == Str("", 0)
Short == Str("hi", 2)
AtLimit == Str("a, 32000 times", MAX_MSG_LEN)
TooLong == Str("a, 32001 times", MAX_MSG_LEN + 1)
Url == Str("https://x/y.png", 15)

\* A property, left out when the value is undefined.
Field(name, val) == IF val = Undefined THEN <<>> ELSE name :> val

TextPart(text) == Obj([type |-> Str("text", 4), text |-> text])
ImagePart(url) == Obj([type |-> Str("image_url", 9), image_url |-> Obj([url |-> url])])
AudioPart == Obj([type |-> Str("audio", 5)])
TextPartExtra == Obj([type |-> Str("text", 4), text |-> Short, cache_control |-> Short])
ImagePartExtra ==
  Obj([type |-> Str("image_url", 9), text |-> Short,
       image_url |-> Obj([url |-> Url, detail |-> Str("high", 4)])])

Parts ==
  {TextPart(Short), TextPart(AtLimit), TextPart(TooLong), TextPart(JNum(50)),
   ImagePart(Url), ImagePart(JNum(50)), ImagePart(Empty),
   Obj([type |-> Str("image_url", 9)]), AudioPart, TextPartExtra, ImagePartExtra,
   JNull, Short}

CoreParts == {TextPart(Short), TextPart(TooLong), ImagePart(Url), AudioPart, JNull}

PartSeqs ==
  {<<>>} \cup {<<p>> : p \in Parts} \cup {<<p, q>> : p \in CoreParts, q \in CoreParts}

Message(role, content) == Obj(Field("role", role) @@ Field("content", content))
MessageExtra == Obj([role |-> Str("user", 4), content |-> Short, name |-> Str("bob", 3)])

Messages ==
  {Message(Str(r, 4), c) : r \in {"user", "tool"},
                           c \in {Short, AtLimit, TooLong, JNum(50), JNull, Undefined}}
    \cup {Message(Str("user", 4), Arr(ps)) : ps \in PartSeqs}
    \cup {Message(Str("system", 6), Short), Message(Str("assistant", 9), Short),
          Message(Undefined, Short), Message(Empty, Short), Message(JNum(50), Short),
          Message(Str("tool", 4), Arr(<<AudioPart>>)), MessageExtra, JNull, Short}

CoreMessages ==
  {Message(Str("user", 4), Short), Message(Str("tool", 4), Short),
   Message(Str("user", 4), TooLong), Message(Str("user", 4), JNum(50)),
   Message(Str("user", 4), Arr(<<AudioPart>>)),
   Message(Str("user", 4), Arr(<<TextPart(TooLong)>>)),
   Message(Str("user", 4), Arr(<<ImagePart(Url)>>)), JNull}

MessageSeqs ==
  {<<>>} \cup {<<m>> : m \in Messages}
    \cup {<<m, n>> : m \in CoreMessages, n \in CoreMessages}
    \cup {[k \in 1..len |-> Message(Str(r, 4), Short)] :
            len \in {MAX_MSGS, MAX_MSGS + 1}, r \in {"user", "tool"}}

MessagesValues ==
  {Arr(ms) : ms \in MessageSeqs} \cup {Undefined, JNull, Short, Obj([length |-> JNum(10)])}

ModelValues ==
  {Undefined, Empty, JNum(50), Str("invalid-model", 13),
   Str("llama-3.1-8b-instant", 20), Str("qwen/qwen3-32b", 14)}

\* What the body parsers hand to the validator: null for a body that does
\* not parse, any JSON value otherwise.
ValidatorBodies ==
  {JNull, JNum(0), JNum(50), Empty, Short, JBool(TRUE), JBool(FALSE), Arr(<<>>)}
    \cup {Obj(Field("model", md) @@ Field("messages", ms)) :
            md \in ModelValues, ms \in MessagesValues}

TemperatureValues ==
  {Undefined, JNull, JBool(TRUE), Str("1.5", 3), Str("warm", 4), Empty,
   JNum(-10), JNum(0), JNum(5), JNum(7), JNum(15), JNum(20), JNum(21), JNum(50)}

MaxTokensValues ==
  {Undefined, JNull, Str("100", 3), Str("many", 4),
   JNum(-50), JNum(0), JNum(15), JNum(Tenths(100)), JNum(Tenths(DefaultMaxTokens)),
   JNum(Tenths(MaxTokensCap)), JNum(Tenths(MaxTokensCap + 1)), JNum(Tenths(100000))}

ExtraValues == {Undefined, JBool(TRUE)}

SanitizerMessageSeqs ==
  {<<Message(Str("user", 4), Short)>>,
   <<MessageExtra>>,
   <<Message(Str("system", 6), Short),
     Message(Str("user", 4), Arr(<<TextPart(Short), ImagePart(Url)>>))>>,
   <<Message(Str("user", 4), Arr(<<TextPartExtra, ImagePartExtra>>))>>,
   <<Message(Str("user", 4), Arr(<<ImagePart(JNum(50))>>))>>}

\* Bodies that pass the validator, with every value of the two parameters
\* and with fields the sanitizer does not know.
SanitizerBodies ==
  {Obj([model |-> Str("llama-3.1-8b-instant", 20), messages |-> Arr(ms)]
         @@ Field("temperature", t) @@ Field("max_tokens", mt)
         @@ Field("stream", x) @@ Field("tools", x)) :
     ms \in SanitizerMessageSeqs, t \in TemperatureValues,
     mt \in MaxTokensValues, x \in ExtraValues}

Bodies == ValidatorBodies \cup SanitizerBodies

\* The validator and the sanitizer run on one body, the sanitizer once
\* more on its own output.
Validate ==
  /\ verr = NoVerdict
  /\ body # NoValue
  /\ hpc = "idle"
  /\ verr' = ValidateBody(variant, body)
  /\ UNCHANGED <<fetchVars, handlerVars, limVars, policyVars>>
  /\ UNCHANGED <<keyPresent, route, body, errMessage, payload, payload2, method, extVars, timer, gate>>

SanitizeBody ==
  /\ verr = Valid
  /\ hpc = "idle"
  /\ payload = NoValue
  /\ payload' = Sanitize(body)
  /\ UNCHANGED <<fetchVars, handlerVars, limVars, policyVars>>
  /\ UNCHANGED <<keyPresent, route, body, verr, errMessage, payload2, method, extVars, timer, gate>>

SanitizeAgain ==
  /\ payload # NoValue
  /\ hpc = "idle"
  /\ payload2 = NoValue
  /\ payload2' = Sanitize(payload)
  /\ UNCHANGED <<fetchVars, handlerVars, limVars, policyVars>>
  /\ UNCHANGED <<keyPresent, route, body, verr, errMessage, payload, method, extVars, timer, gate>>

(***************************************************************************)
(* The dispatcher from the start of the process: what runs before the      *)
(* routes, the four routes up to their upstream call, the replies of the   *)
(* routes that do not stream, the request that matches no route, and the   *)
(* server's requestTimeout.                                                *)
(***************************************************************************)
ApiRoutes == {"/api/chat/stream", "/api/chat", "/api/audio/transcribe", "/api/models"}

\* A path under /api that no route has.
UnknownUrl == "/api/unknown"

Urls == ApiRoutes \cup {UnknownUrl}

Methods == {"GET", "POST"}

RouteMethod(u) == IF u = "/api/models" THEN "GET" ELSE "POST"

\* url === '...' && req.method === '...'
Matches(u, m) == u \in ApiRoutes /\ m = RouteMethod(u)

\* The routes registered with requestTimeout(ms).
TimedRoutes == {"/api/chat", "/api/audio/transcribe", "/api/models"}

\* The server's startup check; the plugin only reads the variable and the
\* worker looks at it on every request.
Startup ==
  /\ hpc = "boot"
  /\ IF variant = "server" /\ ~keyPresent
     THEN hpc' = "exited" /\ logs' = logs \cup {"GROQ_API_KEY is not set"}
     ELSE hpc' = "request" /\ UNCHANGED logs
  /\ UNCHANGED <<fetchVars, limVars, policyVars, reqVars>>
  /\ UNCHANGED <<head, dstatus, dbody, written, endCalls, jsonAfterSse, relayVars, closeAt>>

\* What runs before the route: the plugin's isLimited call for a url that
\* starts with /api/chat, the server's globalLimiter and chatLimiter (a
\* library, which lets the request through or answers 429) and then the
\* route's requestTimeout, the worker's look at env.GROQ_API_KEY.
HandlerEnter ==
  /\ hpc = "request"
  /\ CASE variant = "plugin" ->
            IF route \in ChatUrls
            THEN LET r == IsLimited(rateLimits, ClientIp, ChatMax, PolicyWindowMs, now)
                 IN /\ rateLimits' = r.map
                    /\ gate' = (IF r.ret THEN "limited" ELSE "passed")
                    /\ IF r.ret
                       THEN SendJson(429, "limited")
                       ELSE hpc' = "validate" /\ UNCHANGED <<head, dstatus, dbody, endCalls>>
            ELSE /\ hpc' = "validate"
                 /\ UNCHANGED <<rateLimits, gate, head, dstatus, dbody, endCalls>>
       [] variant = "server" ->
            /\ UNCHANGED rateLimits
            /\ \E limited \in BOOLEAN :
                 /\ gate' = (IF limited THEN "limited" ELSE "passed")
                 /\ IF limited
                    THEN SendJson(429, "limited")
                    ELSE hpc' = "validate" /\ UNCHANGED <<head, dstatus, dbody, endCalls>>
       [] variant = "worker" ->
            /\ UNCHANGED <<rateLimits, gate>>
            /\ IF ~keyPresent
               THEN SendJson(500, "misconfigured")
               ELSE hpc' = "validate" /\ UNCHANGED <<head, dstatus, dbody, endCalls>>
  /\ timer' = (IF /\ variant = "server"
                  /\ hpc' = "validate"
                  /\ Matches(route, method)
                  /\ route \in TimedRoutes
               THEN "armed" ELSE timer)
  /\ UNCHANGED <<fetchVars, now, calls, last, opened, policyVars>>
  /\ UNCHANGED <<keyPresent, route, body, verr, errMessage, payload, payload2, method, extVars>>
  /\ UNCHANGED <<written, jsonAfterSse, logs, relayVars, closeAt>>

\* A validator whose message the handler ignores.
RejectsNothing(v) == FALSE

\* if (err) return ... : a message returned is a non-empty string.
Rejects(v) == v.kind = "err"

\* const err = validateBody(body); if (err) return sendJson(res, 400, ...).
\* A TypeError thrown by the validator is outside every try block.
HandlerValidate ==
  /\ hpc = "validate"
  /\ route \in ChatUrls
  /\ Matches(route, method)
  /\ LET v == ValidateBody(variant, body)
     IN /\ verr' = v
        /\ IF v.kind = "throw"
           THEN /\ hpc' = "escaped"
                /\ UNCHANGED <<head, dstatus, dbody, endCalls, errMessage>>
           ELSE IF Rejects(v)
           THEN /\ SendJson(400, "validator")
                /\ errMessage' = [text |-> v.text, arg |-> v.arg]
           ELSE /\ hpc' = "call"
                /\ UNCHANGED <<head, dstatus, dbody, endCalls, errMessage>>
  /\ UNCHANGED <<fetchVars, limVars, policyVars>>
  /\ UNCHANGED <<keyPresent, route, body, payload, payload2, method, extVars, timer, gate>>
  /\ UNCHANGED <<written, jsonAfterSse, logs, relayVars, closeAt>>

\* POST /api/chat and GET /api/models:
\* const d = await groqRes.json(); sendJson(res, groqRes.status, d)
HandlerChatReply ==
  /\ route \in {"/api/chat", "/api/models"}
  /\ hpc = "awaitGroq"
  /\ fpc = "returned"
  /\ IF result.json /\ ~(IsNode(variant) /\ HeadersSent)
     THEN SendJson(result.status, "upstream") /\ UNCHANGED logs
     ELSE CatchBeforeStream
  /\ PopFetch
  /\ UNCHANGED <<limVars, policyVars, reqVars>>
  /\ UNCHANGED <<written, jsonAfterSse, relayVars, closeAt>>

\* GET /api/models has nothing to validate: groqFetch('/models') is called.
HandlerModels ==
  /\ hpc = "validate"
  /\ route = "/api/models"
  /\ Matches(route, method)
  /\ hpc' = "call"
  /\ UNCHANGED <<fetchVars, limVars, policyVars, reqVars>>
  /\ UNCHANGED <<downVars, relayVars, closeAt>>

\* The request that no route matches.  The plugin and the worker answer it
\* themselves.  In the server it falls through to express.static and to
\* app.get('*'): a GET is answered with dist/index.html, or with the
\* framework's 404 page when the frontend is not built; any other method
\* gets the framework's 404 page.
HandlerNotFound ==
  /\ hpc = "validate"
  /\ ~Matches(route, method)
  /\ IF variant = "server"
     THEN \E built \in BOOLEAN :
            /\ head' = "html"
            /\ dstatus' = (IF method = "GET" /\ built THEN 200 ELSE 404)
            /\ dbody' = (IF method = "GET" /\ built THEN "index.html" ELSE "page")
            /\ endCalls' = endCalls + 1
            /\ hpc' = "done"
     ELSE SendJson(404, "notFound")
  /\ UNCHANGED <<fetchVars, limVars, policyVars, reqVars>>
  /\ UNCHANGED <<written, jsonAfterSse, logs, relayVars, closeAt>>

\* The texts of the requests that atob does not take.
NotBase64 == {"*"}

\* !body?.audio || typeof body.audio !== 'string'
AudioMissing(b) ==
  ~ToBoolean(OptGet(b, "audio")) \/ TypeOf(OptGet(b, "audio")) # "string"

\* atob(body.audio) throws InvalidCharacterError for a text that is not
\* base64; Buffer.from(audio, 'base64') skips what it cannot decode.
AtobThrows(b) == Get(b, "audio").s \in NotBase64

\* (body.mimeType || 'audio/webm').includes('ogg'): a TypeError for a truthy
\* mimeType that is neither a string nor an array.
IncludesThrows(b) ==
  LET m == Get(b, "mimeType")
  IN ToBoolean(m) /\ m.t \notin {"str", "arr"}

\* POST /api/audio/transcribe up to its fetch: the plugin's second isLimited
\* call, the check of body.audio, the form data.
HandlerTranscribe ==
  /\ hpc = "validate"
  /\ route = "/api/audio/transcribe"
  /\ Matches(route, method)
  /\ LET r == IsLimited(rateLimits, ClientIp, TranscribeMax, PolicyWindowMs, now)
         limited == variant = "plugin" /\ r.ret
     IN /\ rateLimits' = (IF variant = "plugin" THEN r.map ELSE rateLimits)
        /\ gate' = (IF variant = "plugin"
                    THEN (IF r.ret THEN "limited" ELSE "passed")
                    ELSE gate)
        /\ IF limited
           THEN SendJson(429, "limited") /\ UNCHANGED <<logs, requests>>
           ELSE IF AudioMissing(body)
           THEN SendJson(400, "audio") /\ UNCHANGED <<logs, requests>>
           ELSE IF (variant = "worker" /\ AtobThrows(body)) \/ IncludesThrows(body)
           THEN CatchBeforeStream /\ UNCHANGED requests
           ELSE /\ hpc' = "awaitFetch"
                /\ requests' = requests + 1
                /\ UNCHANGED <<head, dstatus, dbody, endCalls, logs>>
  /\ UNCHANGED <<variant, maxRetries, fpc, i, res, wait, result, sleeps>>
  /\ UNCHANGED <<now, calls, last, opened, policyVars>>
  /\ UNCHANGED <<keyPresent, route, body, verr, errMessage, payload, payload2, method, extVars, timer>>
  /\ UNCHANGED <<written, jsonAfterSse, relayVars, closeAt>>

\* The route's own fetch() settles: a rejection goes to the catch block; a
\* response is decoded and answered with its status (200 for an ok response
\* in the plugin and the server).
HandlerTranscribeReply ==
  /\ hpc = "awaitFetch"
  /\ \/ /\ CatchBeforeStream
        /\ UNCHANGED result
     \/ \E r \in UpstreamResponses :
          /\ result' = r
          /\ IF r.json /\ ~(IsNode(variant) /\ HeadersSent)
             THEN /\ SendJson(IF Ok(r) /\ IsNode(variant) THEN 200 ELSE r.status, "upstream")
                  /\ UNCHANGED logs
             ELSE CatchBeforeStream
  /\ UNCHANGED <<variant, maxRetries, fpc, i, res, wait, requests, sleeps>>
  /\ UNCHANGED <<limVars, policyVars, reqVars>>
  /\ UNCHANGED <<written, jsonAfterSse, relayVars, closeAt>>

\* The callback of requestTimeout's setTimeout, run while the handler is
\* suspended or after it is over: 408 unless the headers are sent.
TimerExpire ==
  /\ timer = "armed"
  /\ hpc \in {"awaitGroq", "awaitFetch", "done", "escaped"}
  /\ timer' = "fired"
  /\ IF ~HeadersSent
     THEN /\ head' = "json"
          /\ dstatus' = 408
          /\ dbody' = "timeout"
          /\ endCalls' = endCalls + 1
     ELSE UNCHANGED <<head, dstatus, dbody, endCalls>>
  /\ UNCHANGED <<fetchVars, limVars, policyVars>>
  /\ UNCHANGED <<keyPresent, route, body, verr, errMessage, payload, payload2, method, extVars, gate>>
  /\ UNCHANGED <<hpc, written, jsonAfterSse, logs, relayVars, closeAt>>

\* res.on('finish', () => clearTimeout(timer)): the response has been handed
\* over to the socket.
ResFinish ==
  /\ timer = "armed"
  /\ endCalls > 0
  /\ timer' = "cleared"
  /\ UNCHANGED <<fetchVars, limVars, policyVars, handlerVars>>
  /\ UNCHANGED <<keyPresent, route, body, verr, errMessage, payload, payload2, method, extVars, gate>>

\* The client goes away while a route that does not stream waits for the
\* upstream: res.on('close', () => clearTimeout(timer)).
ConnectionClose ==
  /\ IsNode(variant)
  /\ route # "/api/chat/stream"
  /\ hpc \in {"awaitGroq", "awaitFetch"}
  /\ closeAt = -1
  /\ closeAt' = 0
  /\ timer' = (IF timer = "armed" THEN "cleared" ELSE timer)
  /\ UNCHANGED <<fetchVars, limVars, policyVars>>
  /\ UNCHANGED <<keyPresent, route, body, verr, errMessage, payload, payload2, method, extVars, gate>>
  /\ UNCHANGED <<hpc, downVars, relayVars>>

(***************************************************************************)
(* The validator's result told from the body: which rules a body violates, *)
(* and which check of the traversal fails first.                           *)
(***************************************************************************)
Least(S) == CHOOSE x \in S : \A y \in S : x <= y

\* The parts of a message with an array content, null parts left out.
PartsOf(m) ==
  IF IsArray(Get(m, "content"))
  THEN {Get(m, "content").a[k] : k \in 1..Len(Get(m, "content").a)} \ {JNull}
  ELSE {}

TextTooLong(x) == x.t = "str" /\ x.len > MAX_MSG_LEN

AcceptedPart(p) ==
  \/ Is(Get(p, "type"), "text") /\ Get(p, "text").t = "str"
  \/ Is(Get(p, "type"), "image_url") /\ ToBoolean(OptGet(Get(p, "image_url"), "url"))

\* The rules a body violates, each rule looked at on its own: rules 2 to 4
\* on an object body, rules 5 to 8 on every message of a messages array.
ViolatedRules(v, b) ==
  IF ~ToBoolean(b) \/ TypeOf(b) # "object" THEN {1}
  ELSE LET arr == IsArray(Get(b, "messages"))
           ms == IF arr
                 THEN {Get(b, "messages").a[k] : k \in 1..Len(Get(b, "messages").a)} \ {JNull}
                 ELSE {}
       IN {r \in 1..8 :
             \/ r = 2 /\ ~ModelAllowed(Get(b, "model"))
             \/ r = 3 /\ (~arr \/ Len(Get(b, "messages").a) = 0)
             \/ r = 4 /\ arr /\ Len(Get(b, "messages").a) > MAX_MSGS
             \/ r = 5 /\ \E m \in ms : ~RoleOk(v, Get(m, "role"))
             \/ r = 6 /\ \E m \in ms :
                           \/ TextTooLong(Get(m, "content"))
                           \/ \E p \in PartsOf(m) :
                                Is(Get(p, "type"), "text") /\ TextTooLong(Get(p, "text"))
             \/ r = 7 /\ \E m \in ms : \E p \in PartsOf(m) : ~AcceptedPart(p)
             \/ r = 8 /\ \E m \in ms : Get(m, "content").t \notin {"str", "arr"}}

\* The first check that fails on one part: 0 for none, -1 for the TypeError
\* of a null part.
PartFault(p) ==
  IF p = JNull THEN -1
  ELSE IF ~AcceptedPart(p) THEN 7
  ELSE IF Is(Get(p, "type"), "text") /\ TextTooLong(Get(p, "text")) THEN 6
  ELSE 0

\* The first check that fails on one message: its role, then its content,
\* an array content part by part.
MessageFault(v, m) ==
  IF m = JNull THEN -1
  ELSE IF ~RoleOk(v, Get(m, "role")) THEN 5
  ELSE LET c == Get(m, "content")
           bad == IF IsArray(c) THEN {k \in 1..Len(c.a) : PartFault(c.a[k]) # 0} ELSE {}
       IN IF c.t = "str" THEN (IF TextTooLong(c) THEN 6 ELSE 0)
          ELSE IF ~IsArray(c) THEN 8
          ELSE IF bad = {} THEN 0
          ELSE PartFault(c.a[Least(bad)])

\* The check that decides: rules 1 to 4 in order on the body, then the
\* first message with a failing check.
DecidingFault(v, b) ==
  LET top == ViolatedRules(v, b) \cap 1..4 IN
  IF top # {} THEN Least(top)
  ELSE LET ms == Get(b, "messages").a
           bad == {k \in 1..Len(ms) : MessageFault(v, ms[k]) # 0}
       IN IF bad = {} THEN 0 ELSE MessageFault(v, ms[Least(bad)])

\* A request the validator lets through.
ValidBodies ==
  {Obj([model |-> Str("llama-3.1-8b-instant", 20),
        messages |-> Arr(<<Message(Str("user", 4), Short)>>)]),
   Obj([model |-> Str("qwen/qwen3-32b", 14),
        messages |-> Arr(<<Message(Str("system", 6), Short),
                           Message(Str("user", 4), Arr(<<TextPart(Short), ImagePart(Url)>>))>>),
        temperature |-> JNum(0), stream |-> JBool(TRUE)])}

\* The bodies a route can meet: express.json() hands the server objects and
\* arrays only; readBody and request.json() hand on any JSON value, and
\* null for a body that does not parse.  Of the bodies the validator lets
\* through the routes are run on ValidBodies.
RouteBodies(v) ==
  {b \in ValidatorBodies \cup ValidBodies :
     /\ v = "server" => b.t \in {"obj", "arr"}
     /\ \/ b \in ValidBodies
        \/ DecidingFault(v, b) # 0}

\* What POST /api/audio/transcribe can be sent: no JSON, no audio, an audio
\* that is not a string, base64, a text that is not base64, a mimeType that
\* is a number.
Base64 == Str("UklGRg==", 8)

TranscribeBodies(v) ==
  {b \in {JNull,
          Obj(<<>>),
          Obj([audio |-> JNum(Tenths(1))]),
          Obj([audio |-> Base64]),
          Obj([audio |-> Base64, mimeType |-> Str("audio/ogg", 9), language |-> Str("en", 2)]),
          Obj([audio |-> Str("*", 1)]),
          Obj([audio |-> Base64, mimeType |-> JNum(Tenths(1))])} :
     v = "server" => b.t = "obj"}

\* The body a request carries: the routes without a body and the requests
\* that match no route are given none.
RequestBodies(v, u, m) ==
  IF Matches(u, m) /\ u \in ChatUrls THEN RouteBodies(v)
  ELSE IF Matches(u, m) /\ u = "/api/audio/transcribe" THEN TranscribeBodies(v)
  ELSE {NoValue}

(***************************************************************************)
(* Requests served concurrently by one process (plugin, server).  A        *)
(* request runs from one await to the next without any other code running  *)
(* in between: an action is one such run.                                  *)
(***************************************************************************)
Tasks == {"t1", "t2", "t3"}

NoTask == [pc |-> "new", i |-> 0, status |-> 0, during |-> FALSE]

\* What the upstream answers a concurrent request with.
TaskResponses ==
  {r \in UpstreamResponses : r.status \in {200, 429, 500} /\ r.ra = Null /\ r.json}

\* A sleep that keeps the thread busy until its time is over.
SleepHoldsThread == \E a \in Tasks : tasks[a].pc = "sleeping"

\* sleep(ms) is a promise resolved by setTimeout: the task is suspended and
\* the thread is free.
SleepBlocks == FALSE

\* handle() from its entry to await readBody(req): the url tests and the
\* isLimited call (plugin), the limiter middleware (server).
TaskAccept(t) ==
  /\ ~SleepBlocks
  /\ tasks[t].pc = "new"
  /\ LET r == IsLimited(rateLimits, ClientIp, ChatMax, PolicyWindowMs, now)
         fresh == Elapsed(opened[ClientIp], now)
     IN \E libraryLimits \in BOOLEAN :
          LET limited == IF variant = "plugin" THEN r.ret ELSE libraryLimits
          IN /\ variant = "plugin" => ~libraryLimits
             /\ IF variant = "plugin"
                THEN /\ rateLimits' = r.map
                     /\ calls' = calls + 1
                     /\ opened' = [opened EXCEPT ![ClientIp] =
                                     IF fresh
                                     THEN [at |-> now, windowMs |-> PolicyWindowMs, since |-> 1]
                                     ELSE [opened[ClientIp] EXCEPT !.since = @ + 1]]
                     /\ granted' = [granted EXCEPT ![ClientIp] =
                                      IF fresh THEN 1
                                      ELSE IF r.ret THEN @ ELSE @ + 1]
                ELSE UNCHANGED <<rateLimits, calls, opened, granted>>
             /\ tasks' = [tasks EXCEPT ![t] =
                            [pc |-> IF limited THEN "done" ELSE "body",
                             i |-> 0,
                             status |-> IF limited THEN 429 ELSE 0,
                             during |-> \E a \in Tasks : tasks[a].pc = "sleeping"]]
  /\ UNCHANGED <<now, last, fetchVars, handlerVars, policyVars>>
  /\ UNCHANGED <<keyPresent, route, body, verr, errMessage, payload, payload2, method, timer, gate>>
  /\ UNCHANGED <<closedIn, consumerVars>>

\* readBody resolves with a valid body: validateBody, sanitize, and groqFetch
\* up to its first await fetch(...).
TaskBody(t) ==
  /\ ~SleepBlocks
  /\ tasks[t].pc = "body"
  /\ LoopContinues(0, maxRetries)
  /\ tasks' = [tasks EXCEPT ![t].pc = "fetching"]
  /\ UNCHANGED <<limVars, fetchVars, handlerVars, policyVars>>
  /\ UNCHANGED <<keyPresent, route, body, verr, errMessage, payload, payload2, method, timer, gate>>
  /\ UNCHANGED <<closedIn, granted, consumerVars>>

\* fetch() settles: an ok response or an error that is not retried is
\* answered to the client, a 429 that is retried starts the sleep, a
\* rejection is answered 500.
TaskResponse(t) ==
  /\ ~SleepBlocks
  /\ tasks[t].pc = "fetching"
  /\ \/ tasks' = [tasks EXCEPT ![t].pc = "done", ![t].i = 0, ![t].status = 500]
     \/ \E r \in TaskResponses :
          IF ~Ok(r) /\ Retries(variant, r, tasks[t].i, maxRetries)
          THEN tasks' = [tasks EXCEPT ![t].pc = "sleeping"]
          ELSE tasks' = [tasks EXCEPT ![t].pc = "done", ![t].i = 0, ![t].status = r.status]
  /\ UNCHANGED <<limVars, fetchVars, handlerVars, policyVars>>
  /\ UNCHANGED <<keyPresent, route, body, verr, errMessage, payload, payload2, method, timer, gate>>
  /\ UNCHANGED <<closedIn, granted, consumerVars>>

\* The timer of the sleep fires: continue, i++, and the next fetch() or the
\* synthesized 429.
TaskWake(t) ==
  /\ tasks[t].pc = "sleeping"
  /\ IF LoopContinues(tasks[t].i + 1, maxRetries)
     THEN tasks' = [tasks EXCEPT ![t].pc = "fetching", ![t].i = @ + 1]
     ELSE tasks' = [tasks EXCEPT ![t].pc = "done", ![t].i = 0,
                                 ![t].status = SynthResponse.status]
  /\ UNCHANGED <<limVars, fetchVars, handlerVars, policyVars>>
  /\ UNCHANGED <<keyPresent, route, body, verr, errMessage, payload, payload2, method, timer, gate>>
  /\ UNCHANGED <<closedIn, granted, consumerVars>>

\* Time passes.
TaskTick ==
  /\ ~SleepBlocks
  /\ now < MaxPolicySteps * PolicyStepMs
  /\ now' = now + PolicyStepMs
  /\ UNCHANGED <<rateLimits, calls, last, opened, fetchVars, handlerVars, policyVars, reqVars>>

\* The client's window when the requests come in: none, or one in which all
\* but one of the requests of the chat limit have been made.
WindowsBefore == {0, ChatMax - 1}

\* The client's entry in rateLimits when the request comes in: none, or a
\* window in which the chat limit is used up.
EntriesBefore == {NoEntry, [count |-> ChatMax, reset |-> PolicyWindowMs]}

\* No streamChat call.
ConsumerIdle ==
  /\ cpc = "idle"
  /\ sse = <<>>
  /\ unread = <<>>
  /\ cutInChar = FALSE
  /\ buffer = <<>>
  /\ cdec = NoCarry
  /\ events = <<>>

\* No close event, no concurrent request, no streamChat call.
ExtIdle ==
  /\ closedIn = "none"
  /\ tasks = [t \in Tasks |-> NoTask]
  /\ granted = [k \in Keys |-> 0]
  /\ ConsumerIdle

RequestIdle ==
  /\ keyPresent = TRUE
  /\ route = "/api/chat/stream"
  /\ body = NoValue
  /\ verr = NoVerdict
  /\ errMessage = NoValue
  /\ payload = NoValue
  /\ payload2 = NoValue
  /\ method = "POST"
  /\ timer = "none"
  /\ gate = "none"
  /\ ExtIdle

LimiterIdle ==
  /\ rateLimits = [k \in Keys |-> NoEntry]
  /\ now = 0
  /\ calls = 0
  /\ last = NoCall
  /\ opened = [k \in Keys |-> NoWindow]

HandlerAt(pc) ==
  /\ hpc = pc
  /\ head = "none" /\ dstatus = 0 /\ dbody = "none"
  /\ written = <<>> /\ endCalls = 0 /\ jsonAfterSse = 0 /\ logs = {}
  /\ upRead = <<>> /\ upState = "none" /\ rpc = "none" /\ dec = NoCarry
  /\ reads = 0 /\ readsAfterClose = 0 /\ cancelCalls = 0
  /\ onClose = FALSE /\ closeAt = -1

InitFetch ==
  /\ LimiterIdle
  /\ PolicyIdle
  /\ RequestIdle
  /\ HandlerAt("idle")
  /\ variant \in Variants
  /\ maxRetries \in 0..MaxRetriesArg
  /\ fpc = "loop"
  /\ i = 0
  /\ res = NoRes
  /\ wait = Num(0)
  /\ result = NoRes
  /\ requests = 0
  /\ sleeps = 0

NextFetch ==
  \/ GroqFetchAttempt
  \/ GroqFetchExhausted
  \/ GroqFetchResponse
  \/ GroqFetchNetworkError
  \/ GroqFetchWake

SpecFetch == InitFetch /\ [][NextFetch]_vars

Init ==
  /\ LimiterIdle
  /\ PolicyIdle
  /\ RequestIdle
  /\ HandlerAt("call")
  /\ variant \in Variants
  /\ maxRetries = DefaultRetries(variant)
  /\ fpc = "idle"
  /\ i = 0
  /\ res = NoRes
  /\ wait = Num(0)
  /\ result = NoRes
  /\ requests = 0
  /\ sleeps = 0

Next ==
  \/ HandlerCall
  \/ GroqFetchAttempt
  \/ GroqFetchExhausted
  \/ GroqFetchResponse
  \/ GroqFetchNetworkError
  \/ GroqFetchWake
  \/ HandlerFetchThrew
  \/ HandlerNotOk
  \/ HandlerStreamBegin
  \/ PumpChunk
  \/ PumpEnd
  \/ PumpError
  \/ ClientClose

Spec == Init /\ [][Next]_vars

FetchIdle ==
  /\ variant = "plugin"
  /\ maxRetries = DefaultRetries(variant)
  /\ fpc = "idle"
  /\ i = 0
  /\ res = NoRes
  /\ wait = Num(0)
  /\ result = NoRes
  /\ requests = 0
  /\ sleeps = 0

InitLimiter ==
  /\ LimiterIdle
  /\ PolicyIdle
  /\ RequestIdle
  /\ HandlerAt("idle")
  /\ FetchIdle

NextLimiter ==
  \/ LimiterCall
  \/ Tick

SpecLimiter == InitLimiter /\ [][NextLimiter]_vars

InitPolicy ==
  /\ LimiterIdle
  /\ PolicyIdle
  /\ RequestIdle
  /\ HandlerAt("idle")
  /\ FetchIdle

NextPolicy ==
  \/ ChatLimit
  \/ TranscribeLimit
  \/ PolicyTick

SpecPolicy == InitPolicy /\ [][NextPolicy]_vars

InitRoute ==
  /\ PolicyIdle
  /\ HandlerAt("boot")
  /\ variant \in Variants
  /\ maxRetries = DefaultRetries(variant)
  /\ fpc = "idle"
  /\ i = 0
  /\ res = NoRes
  /\ wait = Num(0)
  /\ result = NoRes
  /\ requests = 0
  /\ sleeps = 0
  /\ \E e \in EntriesBefore :
       /\ e # NoEntry => variant = "plugin"
       /\ rateLimits = [k \in Keys |-> IF k = ClientIp THEN e ELSE NoEntry]
  /\ now = 0
  /\ calls = 0
  /\ last = NoCall
  /\ opened = [k \in Keys |-> NoWindow]
  /\ keyPresent \in BOOLEAN
  /\ route \in Urls
  /\ method \in Methods
  /\ body \in RequestBodies(variant, route, method)
  /\ verr = NoVerdict
  /\ errMessage = NoValue
  /\ payload = NoValue
  /\ payload2 = NoValue
  /\ timer = "none"
  /\ gate = "none"
  /\ ExtIdle

NextRoute ==
  \/ Startup
  \/ HandlerEnter
  \/ HandlerValidate
  \/ HandlerCall
  \/ GroqFetchAttempt
  \/ GroqFetchExhausted
  \/ GroqFetchResponse
  \/ GroqFetchNetworkError
  \/ GroqFetchWake
  \/ HandlerFetchThrew
  \/ HandlerNotOk
  \/ HandlerStreamBegin
  \/ HandlerChatReply
  \/ HandlerModels
  \/ HandlerNotFound
  \/ HandlerTranscribe
  \/ HandlerTranscribeReply
  \/ TimerExpire
  \/ ResFinish
  \/ ConnectionClose

SpecRoute == InitRoute /\ [][NextRoute]_vars

InitBody ==
  /\ LimiterIdle
  /\ PolicyIdle
  /\ HandlerAt("idle")
  /\ variant \in Variants
  /\ maxRetries = DefaultRetries(variant)
  /\ fpc = "idle"
  /\ i = 0
  /\ res = NoRes
  /\ wait = Num(0)
  /\ result = NoRes
  /\ requests = 0
  /\ sleeps = 0
  /\ keyPresent = TRUE
  /\ route = "none"
  /\ body \in Bodies
  /\ verr = NoVerdict
  /\ errMessage = NoValue
  /\ payload = NoValue
  /\ payload2 = NoValue
  /\ method = "POST"
  /\ timer = "none"
  /\ gate = "none"
  /\ ExtIdle

NextBody ==
  \/ Validate
  \/ SanitizeBody
  \/ SanitizeAgain

SpecBody == InitBody /\ [][NextBody]_vars

InitTasks ==
  /\ PolicyIdle
  /\ keyPresent = TRUE
  /\ route = "/api/chat"
  /\ body = NoValue
  /\ verr = NoVerdict
  /\ errMessage = NoValue
  /\ payload = NoValue
  /\ payload2 = NoValue
  /\ method = "POST"
  /\ timer = "none"
  /\ gate = "none"
  /\ closedIn = "none"
  /\ ConsumerIdle
  /\ tasks = [t \in Tasks |-> NoTask]
  /\ HandlerAt("idle")
  /\ variant \in {"plugin", "server"}
  /\ maxRetries = DefaultRetries(variant)
  /\ fpc = "idle"
  /\ i = 0
  /\ res = NoRes
  /\ wait = Num(0)
  /\ result = NoRes
  /\ requests = 0
  /\ sleeps = 0
  /\ now = 0
  /\ calls = 0
  /\ last = NoCall
  /\ \E n \in WindowsBefore :
       /\ n # 0 => variant = "plugin"
       /\ rateLimits = [k \in Keys |->
                          IF k = ClientIp /\ n # 0
                          THEN [count |-> n, reset |-> PolicyWindowMs] ELSE NoEntry]
       /\ opened = [k \in Keys |->
                      IF k = ClientIp /\ n # 0
                      THEN [at |-> 0, windowMs |-> PolicyWindowMs, since |-> n] ELSE NoWindow]
       /\ granted = [k \in Keys |-> IF k = ClientIp THEN n ELSE 0]

NextTasks ==
  \/ \E t \in Tasks : TaskAccept(t)
  \/ \E t \in Tasks : TaskBody(t)
  \/ \E t \in Tasks : TaskResponse(t)
  \/ \E t \in Tasks : TaskWake(t)
  \/ TaskTick

SpecTasks == InitTasks /\ [][NextTasks]_vars

(***************************************************************************)
(* Claims about the streaming relay, checked under Spec.                   *)
(***************************************************************************)
RECURSIVE Flatten(_)
Flatten(ss) == IF ss = <<>> THEN <<>> ELSE Head(ss) \o Flatten(Tail(ss))

\* Well-formed UTF-8 over the byte alphabet, allowing a last character that
\* is not complete yet.
RECURSIVE WellFormed(_)
WellFormed(bytes) ==
  IF bytes = <<>> THEN TRUE
  ELSE IF Head(bytes) < 128 THEN WellFormed(Tail(bytes))
  ELSE IF Head(bytes) >= 194 /\ Head(bytes) <= 223
       THEN \/ Len(bytes) = 1
            \/ /\ bytes[2] >= 128 /\ bytes[2] <= 191
               /\ WellFormed(Tail(Tail(bytes)))
  ELSE FALSE

\* A chunk that is well-formed and ends on a character boundary.
Complete(bytes) ==
  WellFormed(bytes) /\ Utf8Decode(NoCarry, bytes, <<>>).st = NoCarry

\* The bytes the decoder holds back: the lead byte of an unfinished character.
CarryBytes(st) == IF st.need = 0 THEN <<>> ELSE <<192 + st.cp>>

\* C1 as stated: the chunks written downstream are exactly the chunks read
\* from upstream, in order, nothing added, dropped, merged or reordered.
C1_ChunksVerbatim == written = upRead

\* C1 as amended: one write per chunk read, in order; the bytes written are
\* the UTF-8 decoding of the bytes read so far and do not depend on how they
\* were split; for well-formed input they are the bytes read minus an
\* unfinished last character the decoder still holds; chunks that each end on
\* a character boundary are written unchanged.
C1_RelayDecodesStream ==
  /\ Len(written) = Len(upRead)
  /\ Flatten(written) = Utf8Encode(Utf8Decode(NoCarry, Flatten(upRead), <<>>).text)
  /\ WellFormed(Flatten(upRead)) => Flatten(written) \o CarryBytes(dec) = Flatten(upRead)
  /\ (\A k \in 1..Len(upRead) : Complete(upRead[k])) => written = upRead

\* A character split between two chunks: the first write ends before it, the
\* second carries it whole.
C1_Witness ==
  /\ upRead = <<<<97, 195>>, <<169, 97>>>>
  /\ written = <<<<97>>, <<195, 169, 97>>>>

\* C2: when the close event fires after the first chunk was relayed, no read
\* is issued after it and reader.cancel() is called exactly once.
C2_CancelOnceNoRead ==
  closeAt >= 1 => cancelCalls = 1 /\ readsAfterClose = 0

\* The close event arrived with one chunk relayed and a read pending.
C2_Witness ==
  /\ closeAt = 1 /\ upState = "cancelled" /\ rpc = "done"
  /\ reads = 2 /\ cancelCalls = 1

\* C3: a request that entered the relay has res.end() called exactly once
\* when the pump exits (end of stream, read error, cancellation), and not
\* before.
C3_EndExactlyOnce ==
  hpc = "streaming" =>
    /\ rpc = "pending" => endCalls = 0
    /\ rpc = "done" => endCalls = 1

\* The pump left through its catch block and the response was ended.
C3_Witness ==
  /\ hpc = "streaming" /\ rpc = "done" /\ upState = "errored"
  /\ "Stream error" \in logs /\ endCalls = 1

\* A final upstream response exists and is not ok.
FinalNotOk == result.src # "none" /\ ~Ok(result)

HandlerOver == hpc \in {"done", "piped", "escaped"}

\* C4 as stated: whenever the final upstream response is not ok, the client
\* receives a JSON response carrying the upstream status, and no event-stream
\* header or chunk is written.
C4_JsonWithUpstreamStatus ==
  (FinalNotOk /\ HandlerOver) =>
    /\ head = "json" /\ dstatus = result.status /\ dbody = "upstream"
    /\ written = <<>>

\* C4 as amended: event-stream headers are set only after an ok upstream
\* response; when the final response is not ok no event-stream header or chunk
\* is written, and the client receives the upstream status and body as JSON if
\* that body decodes as JSON; if it does not, the plugin and the server answer
\* 500 with the generic envelope and the worker's handler throws.
C4_StreamOnlyAfterOk ==
  /\ head \in {"sse", "sseSet"} => result.src = "upstream" /\ Ok(result)
  /\ FinalNotOk => head \notin {"sse", "sseSet"} /\ written = <<>> /\ reads = 0
  /\ (FinalNotOk /\ HandlerOver /\ result.json) =>
       head = "json" /\ dstatus = result.status /\ dbody = "upstream"
  /\ (FinalNotOk /\ HandlerOver /\ ~result.json) =>
       IF IsNode(variant)
       THEN head = "json" /\ dstatus = 500 /\ dbody = "generic"
       ELSE hpc = "escaped" /\ head = "none"

\* The retries ran out and the synthesized 429 went to the client as JSON.
C4_Witness ==
  /\ hpc = "done" /\ result = SynthResponse
  /\ head = "json" /\ dstatus = 429 /\ dbody = "upstream"

\* C5: once the event-stream headers are committed for a request, no JSON
\* error envelope is written or attempted for it.
C5_NoJsonAfterStreamHeaders == jsonAfterSse = 0

(***************************************************************************)
(* Claims about groqFetch, checked under SpecFetch.                        *)
(***************************************************************************)
\* C6: when every attempt was answered 429 (the only way a 429 is returned),
\* the response returned is the one groqFetch synthesizes, not the
\* upstream's, in every variant.
C6_SynthesizedOnExhaustion ==
  (fpc = "returned" /\ result.status = 429) => result = SynthResponse

\* C7: a response whose status is not 429 is returned at once and unchanged:
\* it is the last response received, no sleep and no request follows it, and
\* a sleep is only ever started by a 429.
C7_PassThroughAtOnce ==
  /\ (fpc = "returned" /\ result.src = "upstream" /\ result.status # 429) =>
       /\ result = res
       /\ requests = i + 1
       /\ sleeps = i
  /\ fpc = "sleeping" => res.status = 429

\* Two 429s, then a 500 that is handed back: three requests, two sleeps.
C7_Witness ==
  /\ fpc = "returned" /\ result.status = 500 /\ result = res
  /\ i = 2 /\ requests = 3 /\ sleeps = 2

Settled == fpc \in {"returned", "threw"}

\* C8 as stated: whatever the upstream does, groqFetch makes at most
\* maxRetries + 1 requests and ends by returning a response.
C8_AlwaysReturns ==
  /\ requests <= maxRetries + 1
  /\ Settled => fpc = "returned" /\ result.src # "none"

\* C8 as amended: groqFetch makes at most maxRetries + 1 requests (at most
\* maxRetries retries); it can always take a step until it has settled; it
\* settles by returning a response when every request was answered, and by
\* throwing, without a retry, when a request failed at the network level.
C8_BoundedAttempts ==
  /\ requests <= maxRetries + 1
  /\ i <= maxRetries + 1
  /\ Settled \/ ENABLED (GroqFetchAttempt \/ GroqFetchExhausted \/ GroqFetchResponse
                          \/ GroqFetchNetworkError \/ GroqFetchWake)
  /\ fpc = "returned" => result.src # "none"
  /\ fpc = "threw" => result = NoRes /\ requests = i + 1

\* Every permitted attempt was used and answered 429, and a response came back.
C8_Witness ==
  /\ fpc = "returned" /\ maxRetries = 3 /\ requests = 4 /\ result.status = 429

IsDelaySeconds(h) == h # <<>> /\ h # Null /\ \A k \in 1..Len(h) : IsDigit(h[k])

\* C9: before a retry that follows a 429, the wait is retryAfter x 1000 ms
\* when the response carries a retry-after hint, whatever the attempt index,
\* and min(1000 x 2^attempt + jitter, cap) with 0 <= jitter < 500 otherwise,
\* which never exceeds the cap.
C9_WaitBeforeRetry ==
  (fpc = "sleeping" /\ i < maxRetries) =>
    IF Truthy(res.ra)
    THEN /\ ~wait.nan
         /\ IsDelaySeconds(res.ra) => wait.v = 1000 * ReadDigits(res.ra, 0)
    ELSE /\ ~wait.nan
         /\ wait.v <= Cap(variant)
         /\ \E j \in 0..(JitterRange - 1) :
              wait.v = Min(BackoffBase * Pow2(i) + j, Cap(variant))

(***************************************************************************)
(* Claims about the rate limiter, checked under SpecLimiter.               *)
(***************************************************************************)
\* C10: a call for a key with no entry, or whose window has elapsed, stores
\* count = 1 and reset = now + windowMs and returns false, however many calls
\* the old window saw; the k-th call for a key inside one window returns true
\* exactly when k > max; the stored count is the number of calls in the window.
C10_FixedWindow ==
  last # NoCall =>
    /\ last.fresh =>
         /\ rateLimits[last.key] = [count |-> 1, reset |-> last.at + last.windowMs]
         /\ last.ret = FALSE
    /\ ~last.fresh => (last.ret <=> opened[last.key].since > last.max)
    /\ \A k \in Keys : rateLimits[k].count = opened[k].since

\* A window that saw more than max calls has elapsed, and the call that opens
\* the next window of the same key is not limited.
C10_Witness ==
  /\ last # NoCall /\ last.fresh /\ ~last.ret
  /\ last.before > last.max
  /\ rateLimits[last.key] = [count |-> 1, reset |-> last.at + last.windowMs]

(***************************************************************************)
(* Claims about the plugin's rate-limit policies, checked under            *)
(* SpecPolicy.                                                             *)
(***************************************************************************)
\* C11: the chat policy (20 per 60 s) and the transcription policy (30 per
\* 60 s) are independent: whether a client's request is limited under one
\* policy is what that policy would answer had the client made no request
\* under the other.
C11_PoliciesIndependent ==
  lastPolicy # NoPolicyCall => lastPolicy.ret = lastPolicy.alone

(***************************************************************************)
(* Claims about the chat routes, checked under SpecRoute.                  *)
(***************************************************************************)
\* C12: a chat request whose body the validator rejects is answered with
\* status 400 and the validator's message in the error envelope, and no
\* upstream request is issued for it, on both chat routes in every variant.
C12_RejectedBeforeUpstream ==
  verr # NoVerdict /\ ValidateBody(variant, body).kind = "err" =>
    /\ hpc = "done"
    /\ head = "json"
    /\ dstatus = 400
    /\ dbody = "validator"
    /\ errMessage = [text |-> ValidateBody(variant, body).text,
                     arg |-> ValidateBody(variant, body).arg]
    /\ requests = 0

C12_Witness ==
  /\ variant = "server"
  /\ route = "/api/chat/stream"
  /\ verr.kind = "err"
  /\ verr.rule = 6
  /\ dstatus = 400
  /\ requests = 0

\* C13: without GROQ_API_KEY no request is sent upstream, whatever the
\* variant.
C13_NoKeyNoUpstream == ~keyPresent => requests = 0

(***************************************************************************)
(* Claims about the sanitizer, checked under SpecBody.                     *)
(***************************************************************************)
\* C14: sanitizing is idempotent: the sanitizer's output for its own output
\* equals that output, field for field, for every validated request.
C14_SanitizeIdempotent == payload2 # NoValue => payload2 = payload

\* C15: the temperature sent upstream lies in [0, 2]; for a numeric input t
\* it is min(max(t, 0), 2), so that 0 stays 0; the default 0.7 is what an
\* absent or non-numeric input gives.
C15_TemperatureClamped ==
  payload # NoValue =>
    LET t == Get(body, "temperature")
        out == Get(payload, "temperature").v
    IN /\ out >= Tenths(MinTemperature) /\ out <= Tenths(MaxTemperature)
       /\ t.t = "num" => out = Min(Max(t.v, Tenths(MinTemperature)), Tenths(MaxTemperature))
       /\ ToNumber(t).nan => out = DefaultTemperatureTenths

\* C16: the max_tokens sent upstream is at most 16384; it is the input when
\* that is a number not above 16384, and 4096 when the input is absent or
\* not numeric.
C16_MaxTokensCapped ==
  payload # NoValue =>
    LET m == Get(body, "max_tokens")
        out == Get(payload, "max_tokens").v
    IN /\ out <= Tenths(MaxTokensCap)
       /\ m.t = "num" /\ m.v <= Tenths(MaxTokensCap) => out = m.v
       /\ ToNumber(m).nan => out = Tenths(DefaultMaxTokens)

\* The part, message and body made of the known fields alone.
KnownPart(p) ==
  Obj(Field("type", Get(p, "type")) @@ Field("text", Get(p, "text"))
        @@ (IF Nullish(Get(p, "image_url")) THEN <<>>
            ELSE "image_url" :> Obj(Field("url", Get(Get(p, "image_url"), "url")))))

KnownMessage(m) ==
  LET c == Get(m, "content") IN
  Obj(Field("role", Get(m, "role"))
        @@ Field("content", IF IsArray(c)
                            THEN Arr([k \in 1..Len(c.a) |-> KnownPart(c.a[k])])
                            ELSE c))

Known(b) ==
  Obj(Field("model", Get(b, "model"))
        @@ Field("messages", Arr([k \in 1..Len(Get(b, "messages").a) |->
                                    KnownMessage(Get(b, "messages").a[k])]))
        @@ Field("temperature", Get(b, "temperature"))
        @@ Field("max_tokens", Get(b, "max_tokens")))

OnlyKnownPart(p) ==
  \/ DOMAIN p.o = {"type", "text"}
  \/ DOMAIN p.o = {"type", "image_url"} /\ DOMAIN p.o.image_url.o = {"url"}

OnlyKnownMessage(m) ==
  /\ DOMAIN m.o = {"role", "content"}
  /\ IsArray(m.o.content) => \A k \in 1..Len(m.o.content.a) : OnlyKnownPart(m.o.content.a[k])

\* C17: the payload is a function of the known fields alone (model, each
\* message's role and content, each part's type, text and image_url.url,
\* temperature, max_tokens): it is the payload of the request stripped of
\* every other field, and it carries no other field itself.
C17_OnlyKnownFields ==
  payload # NoValue =>
    /\ payload = Sanitize(Known(body))
    /\ DOMAIN payload.o = {"model", "messages", "temperature", "max_tokens"}
    /\ \A k \in 1..Len(payload.o.messages.a) : OnlyKnownMessage(payload.o.messages.a[k])

C17_Witness ==
  /\ payload # NoValue
  /\ "stream" \in DOMAIN body.o
  /\ \E k \in 1..Len(body.o.messages.a) : "name" \in DOMAIN body.o.messages.a[k].o
  /\ body # Known(body)

(***************************************************************************)
(* Claims about the validator, checked under SpecBody.                     *)
(***************************************************************************)
\* The texts of the eight rules as listed.
RuleTexts ==
  <<"Invalid body", "Unknown model", "No messages", "Too many messages",
    "Invalid role", "Message too long", "Invalid content part",
    "Content must be string or array">>

\* C18 as stated: the validator's answer is the message of the
\* earliest-listed rule among the rules the body violates, and no message
\* when it violates none.
C18_EarliestListedRuleDecides ==
  verr.kind \in {"ok", "err"} =>
    IF ViolatedRules(variant, body) = {}
    THEN verr.kind = "ok"
    ELSE /\ verr.kind = "err"
         /\ verr.text = RuleTexts[Least(ViolatedRules(variant, body))]

\* C18, amended: rules 1 to 4 are checked in order on the body; the
\* messages are then checked one after the other, each for its role and
\* then for its content, the parts of an array content one after the
\* other, and the first check that fails in that traversal decides.  The
\* texts are the eight listed in the plugin and the worker.
C18_FirstFailingCheckDecides ==
  verr # NoVerdict =>
    LET f == DecidingFault(variant, body) IN
    /\ f = 0 <=> verr.kind = "ok"
    /\ f = -1 <=> verr.kind = "throw"
    /\ f > 0 <=> verr.kind = "err"
    /\ f > 0 => verr.rule = f
    /\ f > 0 /\ variant # "server" => verr.text = RuleTexts[f]

\* A too long first message before a second message with a role that is
\* not listed: rule 6 decides although rule 5 is violated as well.
C18_Witness ==
  /\ verr.kind = "err"
  /\ verr.rule = 6
  /\ 5 \in ViolatedRules(variant, body)

(***************************************************************************)
(* Claims about the validator's answers on the chat routes, checked under  *)
(* SpecRoute.                                                              *)
(***************************************************************************)
EmptyMessages(b) ==
  b.t = "obj" /\ IsArray(Get(b, "messages")) /\ Len(Get(b, "messages").a) = 0

\* C19 as stated: every request whose messages array is empty is rejected
\* with "No messages", and no upstream call is made for it.
C19_EmptyMessagesNoMessages ==
  verr # NoVerdict /\ EmptyMessages(body) =>
    /\ verr.kind = "err"
    /\ verr.text = "No messages"
    /\ requests = 0

\* C19, amended: a request whose model is on the allow-list and whose
\* messages array is empty is rejected by rule 3, with "No messages" in the
\* plugin and the worker and "Messages array is required" in the server,
\* and answered 400; a request whose model is not on the list is rejected
\* by rule 2 whatever its messages.  No upstream call is made either way.
C19_EmptyMessagesRule3 ==
  verr # NoVerdict /\ EmptyMessages(body) =>
    /\ verr.kind = "err"
    /\ verr.rule = IF ModelAllowed(Get(body, "model")) THEN 3 ELSE 2
    /\ verr.rule = 3 =>
         verr.text = IF variant = "server" THEN "Messages array is required"
                     ELSE "No messages"
    /\ dstatus = 400
    /\ errMessage.text = verr.text
    /\ requests = 0

C19_Witness ==
  /\ variant = "worker"
  /\ EmptyMessages(body)
  /\ ModelAllowed(Get(body, "model"))
  /\ verr.rule = 3
  /\ dstatus = 400

\* An object body whose model is not one of the six names.
UnknownModel(b) ==
  /\ b.t = "obj"
  /\ Get(b, "model").t = "str" => Get(b, "model").s \notin ALLOWED_MODELS

MessagesOf(b) ==
  IF b.t = "obj" /\ IsArray(Get(b, "messages"))
  THEN {Get(b, "messages").a[k] : k \in 1..Len(Get(b, "messages").a)} \ {JNull}
  ELSE {}

\* Some text content of the body, a string content or the text of a text
\* part, is longer than 32000.
HasTooLongText(b) ==
  \E m \in MessagesOf(b) :
    \/ Get(m, "content").t = "str" /\ Get(m, "content").len > 32000
    \/ \E p \in PartsOf(m) :
         /\ Is(Get(p, "type"), "text")
         /\ Get(p, "text").t = "str"
         /\ Get(p, "text").len > 32000

OnePart(p) ==
  Obj([model |-> Str("llama-3.1-8b-instant", 20),
       messages |-> Arr(<<Message(Str("user", 4), Arr(<<p>>))>>)])

\* The two shapes of an accepted part as listed.
ListedPart(p) ==
  /\ p.t = "obj"
  /\ \/ /\ Is(Get(p, "type"), "text")
        /\ Get(p, "text").t = "str"
        /\ Get(p, "text").len <= 32000
     \/ /\ Is(Get(p, "type"), "image_url")
        /\ OptGet(Get(p, "image_url"), "url").t = "str"

\* C22: a part of an array content is accepted exactly when it is a text
\* part with a string text of at most 32000 characters or an image_url part
\* whose image_url.url is a string; every other part that is not a text
\* part yields "Invalid content part".
C22_PartAcceptedExactlyWhenListed ==
  \A p \in Parts \ {JNull} :
    verr # NoVerdict /\ body = OnePart(p) =>
      /\ verr.kind = "ok" <=> ListedPart(p)
      /\ ~ListedPart(p) /\ ~Is(Get(p, "type"), "text") =>
           verr.text = "Invalid content part"

\* C23: the validator returns a message or no error for every body, and
\* never throws.
C23_ValidatorTotal == verr # NoVerdict => verr.kind \in {"ok", "err"}

(***************************************************************************)
(* Claims about the dispatcher, checked under SpecRoute.                   *)
(***************************************************************************)
\* The bodies that are {error: {message: <text>}} written by the dispatcher
\* or by the rate limiter of the server.
ErrorEnvelopes ==
  {"generic", "validator", "limited", "misconfigured", "notFound", "audio", "timeout"}

\* C24: every error response the dispatcher writes itself carries the error
\* envelope, and a request under /api that matches none of the four routes
\* and is let through by what runs before the routes is answered 404 with
\* that envelope, in every variant.
C24_ErrorEnvelopeAndNotFound ==
  hpc = "done" =>
    /\ dstatus >= 400 /\ dbody # "upstream" => dbody \in ErrorEnvelopes
    /\ ~Matches(route, method) /\ gate # "limited" /\ dbody # "misconfigured" =>
         dstatus = 404 /\ dbody = "notFound"

\* POST /api/chat is over and groqFetch had returned a response.
ChatAnswered ==
  /\ route = "/api/chat"
  /\ method = "POST"
  /\ hpc \in {"done", "escaped"}
  /\ result # NoRes

\* C25 as stated: for POST /api/chat with a valid request the status sent is
\* the status of the response groqFetch returned and the body sent is that
\* response's JSON body.
C25_ChatPassesUpstream ==
  ChatAnswered =>
    /\ hpc = "done"
    /\ head = "json"
    /\ dstatus = result.status
    /\ dbody = "upstream"

\* C25, amended: for POST /api/chat with a valid request, a response of
\* groqFetch whose body parses as JSON is passed on with its status and its
\* body, be it a 200 or an error, unless the server's requestTimeout has
\* answered 408 before, in which case nothing more is sent and the handler
\* ends with an exception.  A response whose body does not parse as JSON is
\* answered 500 with the generic envelope by the plugin and the server, and
\* makes the worker's handler throw with nothing sent.
C25_ChatPassesJson ==
  ChatAnswered =>
    IF dbody = "timeout"
    THEN variant = "server" /\ timer = "fired" /\ dstatus = 408 /\ hpc = "escaped"
    ELSE IF result.json
    THEN /\ hpc = "done"
         /\ head = "json"
         /\ dstatus = result.status
         /\ dbody = "upstream"
    ELSE IF IsNode(variant)
    THEN hpc = "done" /\ head = "json" /\ dstatus = 500 /\ dbody = "generic"
    ELSE hpc = "escaped" /\ head = "none"

\* An upstream error passed on by the server.
C25_Witness ==
  /\ ChatAnswered
  /\ variant = "server"
  /\ result.status = 500
  /\ result.json
  /\ dstatus = 500
  /\ dbody = "upstream"

\* fetch() rejected on a chat route: a request was sent and groqFetch
\* returned nothing.
ChatFetchFailed ==
  /\ route \in ChatUrls
  /\ hpc \in {"done", "escaped"}
  /\ requests > 0
  /\ result = NoRes

\* The body of the response did not parse where the route decodes it.
ChatDecodeFailed ==
  /\ route \in ChatUrls
  /\ hpc \in {"done", "escaped"}
  /\ result # NoRes
  /\ ~result.json
  /\ ~(route = "/api/chat/stream" /\ TakesStreamBranch(result))

\* C26: when fetch() rejects, or the body of the upstream response does not
\* decode, the chat routes answer 500 with the generic envelope and no
\* exception leaves the handler, in every variant (the server's timer left
\* aside).
C26_FailureAnswered500 ==
  (ChatFetchFailed \/ ChatDecodeFailed) /\ dbody # "timeout" =>
    /\ hpc = "done"
    /\ dstatus = 500
    /\ dbody = "generic"

\* C27: in the server, when the timer of requestTimeout expires with no
\* header sent, 408 with the error envelope is sent; when it expires after
\* a response it sends nothing; a 408 is only ever sent by an armed timer
\* of /api/chat, /api/audio/transcribe or /api/models, with nothing sent
\* before and the connection open; no timer is armed for /api/chat/stream
\* and none outside the server.
C27_TimeoutOnlyWhenUnanswered ==
  [][/\ timer = "armed" /\ timer' = "fired" =>
          IF head = "none"
          THEN head' = "json" /\ dstatus' = 408 /\ dbody' = "timeout"
          ELSE UNCHANGED <<head, dstatus, dbody, endCalls>>
     /\ dbody' = "timeout" /\ dbody # "timeout" =>
          /\ timer = "armed"
          /\ head = "none"
          /\ closeAt = -1
     /\ timer' # "none" =>
          /\ variant = "server"
          /\ route \in TimedRoutes
          /\ route # "/api/chat/stream"
     /\ closeAt' # -1 => timer' # "armed"]_vars

\* The timer has answered a GET /api/models whose upstream call is pending.
C27_Witness ==
  /\ variant = "server"
  /\ route = "/api/models"
  /\ timer = "fired"
  /\ hpc = "awaitGroq"
  /\ dstatus = 408
  /\ dbody = "timeout"

\* C28: every request sent upstream by a chat route comes after a check of
\* the local rate limiter that let the inbound request through; a request
\* the limiter rejects is answered 429, is not validated and sends nothing
\* upstream, in every variant.
C28_LimiterBeforeUpstream ==
  /\ route \in ChatUrls /\ requests > 0 => gate = "passed"
  /\ gate = "limited" =>
       /\ dstatus = 429
       /\ verr = NoVerdict
       /\ requests = 0

(***************************************************************************)
(* Claims about the client going away, checked under Spec.                 *)
(***************************************************************************)
\* C29: whenever the client goes away, be it before req.on('close') is
\* registered, no read of the upstream stream is issued afterwards.
C29_NoReadForGoneClient ==
  closeAt # -1 => readsAfterClose = 0

\* C30: a close event that meets a pending read ends the pump through the
\* done path: the read resolves, the catch block is not entered, nothing
\* leaves the handler, and res.end() has been called once.
C30_CancelEndsPumpNormally ==
  upState = "cancelled" =>
    /\ rpc = "done"
    /\ "Stream error" \notin logs
    /\ hpc = "streaming"
    /\ endCalls = 1
    /\ cancelCalls = 1

\* The close event arrived with the first read pending.
C30_Witness ==
  /\ upState = "cancelled"
  /\ closeAt = 0
  /\ reads = 1
  /\ rpc = "done"
  /\ endCalls = 1

(***************************************************************************)
(* Claims about the sleeps of groqFetch, checked under SpecFetch.          *)
(***************************************************************************)
\* C34: every sleep of groqFetch is followed by another upstream request:
\* when the call is over it has sent one request more than it has slept,
\* and it has slept at most maxRetries times.
C34_EverySleepRetried ==
  /\ sleeps <= requests
  /\ fpc \in {"returned", "threw"} =>
       /\ requests = sleeps + 1
       /\ sleeps <= maxRetries

(***************************************************************************)
(* Claims about the range of max_tokens, checked under SpecBody.           *)
(***************************************************************************)
\* C37: the max_tokens the sanitizer sends upstream is a number from 1 to
\* 16384, whatever max_tokens the validated request carried.
C37_MaxTokensPositive ==
  payload # NoValue =>
    LET out == Get(payload, "max_tokens")
    IN /\ out.t = "num"
       /\ out.v >= Tenths(1)
       /\ out.v <= Tenths(MaxTokensCap)

(***************************************************************************)
(* Claims about a client that goes away during groqFetch, checked under    *)
(* Spec, and about the reply that comes after the server's 408, checked    *)
(* under SpecRoute.                                                        *)
(***************************************************************************)
\* C35: once the client of a streaming request has gone away while
\* groqFetch was waiting for the upstream's answer or sleeping, the plugin
\* and the server send no further request upstream for it.
C35_NoAttemptAfterDisconnect ==
  [][IsNode(variant) /\ closedIn \in {"fetching", "sleeping"} => requests' = requests]_vars

\* C36: in the server, a request that requestTimeout has answered 408 and
\* whose upstream call comes to its end afterwards ends without an
\* exception leaving the route handler, and with the 408 as the one response
\* written.
C36_NoErrorAfterTimeout ==
  /\ variant = "server"
  /\ dbody = "timeout"
  /\ requests > 0
  /\ fpc = "idle"
  /\ hpc # "awaitFetch"
  => /\ hpc # "escaped"
     /\ endCalls = 1
     /\ "Error" \notin logs

(***************************************************************************)
(* Claims about concurrent requests, checked under SpecTasks.              *)
(***************************************************************************)
\* C31: however the concurrent requests interleave, after n isLimited calls
\* for a key inside one window the stored count is n and min(n, max) of the
\* calls returned false.
C31_CallsCountedOnce ==
  variant = "plugin" =>
    \A k \in Keys :
      /\ rateLimits[k].count = opened[k].since
      /\ granted[k] = Min(opened[k].since, ChatMax)

\* Three requests came in inside a window that had seen 19: the first was
\* let through and waits for the upstream, the two that came in meanwhile
\* were limited.
C31_Witness ==
  /\ variant = "plugin"
  /\ rateLimits[ClientIp].count = ChatMax + 2
  /\ granted[ClientIp] = ChatMax
  /\ tasks["t1"].pc = "fetching"
  /\ tasks["t2"].pc = "done" /\ tasks["t2"].status = 429
  /\ tasks["t3"].pc = "done" /\ tasks["t3"].status = 429

\* C32: while a request sleeps in groqFetch's backoff, every other request
\* can take its next step (be accepted, call the upstream, receive the
\* answer and reply): the sleep holds up no request but its own.
C32_SleepDelaysNoOther ==
  \A a \in Tasks, b \in Tasks :
    a # b /\ tasks[a].pc = "sleeping" =>
      /\ tasks[b].pc = "new" => ENABLED TaskAccept(b)
      /\ tasks[b].pc = "body" => ENABLED TaskBody(b)
      /\ tasks[b].pc = "fetching" => ENABLED TaskResponse(b)

\* A request that came in while another one slept has been answered with
\* the upstream's 200, and the other one still sleeps.
C32_Witness ==
  /\ tasks["t1"].pc = "sleeping"
  /\ tasks["t2"].pc = "done"
  /\ tasks["t2"].during
  /\ tasks["t2"].status = 200

(***************************************************************************)
(* streamChat, the client's consumer of /api/chat/stream.  Text is a       *)
(* sequence of code points, the response body a sequence of bytes that     *)
(* reader.read() hands over in chunks of any length.                       *)
(***************************************************************************)
NewLine == 10
\* What String.prototype.trim removes, among the code points below 128.
WhiteSpace == {9, 10, 11, 12, 13, 32}
\* 'data: '
DataPrefix == <<100, 97, 116, 97, 58, 32>>
\* '[DONE]'
DoneText == <<91, 68, 79, 78, 69, 93>>
\* '{"choices":[{"delta":{"content":"' and '"}}]}', around a token
JsonHead == <<123, 34, 99, 104, 111, 105, 99, 101, 115, 34, 58, 91, 123, 34, 100, 101, 108, 116, 97, 34, 58, 123, 34, 99, 111, 110, 116, 101, 110, 116, 34, 58, 34>>
JsonTail == <<34, 125, 125, 93, 125>>
\* '{"choices":[{"delta":{}}]}'
JsonNoContent == <<123, 34, 99, 104, 111, 105, 99, 101, 115, 34, 58, 91, 123, 34, 100, 101, 108, 116, 97, 34, 58, 123, 125, 125, 93, 125>>
\* The characters a JSON string cannot hold unescaped: '"', '\' and controls.
Escaped(c) == c = 34 \/ c = 92 \/ c < 32

\* text.split('\n'): the pieces between the '\n's, At(j) being the place of
\* the j-th '\n'.
Split(text) ==
  LET nl == {k \in 1..Len(text) : text[k] = NewLine}
      n == Cardinality(nl)
      At(j) == CHOOSE k \in nl : Cardinality({m \in nl : m < k}) = j - 1
  IN [j \in 1..(n + 1) |->
        SubSeq(text, IF j = 1 THEN 1 ELSE At(j - 1) + 1,
                     IF j = n + 1 THEN Len(text) ELSE At(j) - 1)]

\* decoder.decode(bytes, { stream: true }) for a chunk of any length: the
\* decoder runs over the bytes in order; the state the first half leaves is
\* the state the second half starts in.  Pieces of DecodeBlock bytes go to
\* Utf8Decode as they are.
DecodeBlock == 8
RECURSIVE Decode(_, _)
Decode(st, bytes) ==
  IF Len(bytes) <= DecodeBlock THEN Utf8Decode(st, bytes, <<>>)
  ELSE LET h == Len(bytes) \div 2
           d1 == Decode(st, SubSeq(bytes, 1, h))
           d2 == Decode(d1.st, SubSeq(bytes, h + 1, Len(bytes)))
       IN [text |-> d1.text \o d2.text, st |-> d2.st]

\* The UTF-8 bytes of a text, character after character.
RECURSIVE Encode(_)
Encode(text) ==
  IF Len(text) <= 1 THEN Utf8Encode(text)
  ELSE LET h == Len(text) \div 2
       IN Encode(SubSeq(text, 1, h)) \o Encode(SubSeq(text, h + 1, Len(text)))

\* line.trim()
Trim(line) ==
  LET keep == {k \in 1..Len(line) : line[k] \notin WhiteSpace}
  IN IF keep = {} THEN <<>>
     ELSE SubSeq(line, CHOOSE k \in keep : \A m \in keep : k <= m,
                       CHOOSE k \in keep : \A m \in keep : k >= m)

\* trimmed.startsWith(prefix) and trimmed.slice(n)
StartsWith(text, prefix) ==
  Len(text) >= Len(prefix) /\ SubSeq(text, 1, Len(prefix)) = prefix
Slice(text, n) == SubSeq(text, n + 1, Len(text))

\* JSON.parse(payload).choices?.[0]?.delta?.content for the payloads of a
\* chat completion chunk: a delta with a content string, a delta without
\* content (token undefined, here the empty text, which is falsy as well);
\* any other text of the bodies below is not JSON and makes JSON.parse throw.
JsonParse(text) ==
  IF text = JsonNoContent THEN [threw |-> FALSE, token |-> <<>>]
  ELSE IF /\ StartsWith(text, JsonHead)
          /\ Len(text) >= Len(JsonHead) + Len(JsonTail)
          /\ SubSeq(text, Len(text) - Len(JsonTail) + 1, Len(text)) = JsonTail
          /\ \A k \in (Len(JsonHead) + 1)..(Len(text) - Len(JsonTail)) : ~Escaped(text[k])
       THEN [threw |-> FALSE,
             token |-> SubSeq(text, Len(JsonHead) + 1, Len(text) - Len(JsonTail))]
       ELSE [threw |-> TRUE, token |-> <<>>]

\* The callbacks, as entries of events.
OnChunk(token) == [cb |-> "onChunk", token |-> token]
OnDone == [cb |-> "onDone", token |-> <<>>]
OnError == [cb |-> "onError", token |-> <<>>]

\* The for loop over the complete lines, from line k on: r.done says that the
\* [DONE] branch was taken.
RECURSIVE ForLines(_, _, _)
ForLines(lines, k, r) ==
  IF k > Len(lines) THEN r
  ELSE LET trimmed == Trim(lines[k]) IN
    IF ~StartsWith(trimmed, DataPrefix) THEN ForLines(lines, k + 1, r)
    ELSE LET data == Slice(trimmed, 6) IN
      IF data = DoneText
      THEN [events |-> Append(r.events, OnDone), done |-> TRUE]
      ELSE LET parsed == JsonParse(data) IN
        IF ~parsed.threw /\ parsed.token # <<>>
        THEN ForLines(lines, k + 1, [r EXCEPT !.events = Append(@, OnChunk(parsed.token))])
        ELSE ForLines(lines, k + 1, r)

\* lines.pop() becomes the buffer, the other lines go through the for loop.
LineLoop(st, lines) ==
  CHOOSE out \in
    {[buffer |-> lines[Len(lines)], dec |-> st, events |-> r.events, done |-> r.done] :
       r \in {ForLines(SubSeq(lines, 1, Len(lines) - 1), 1, [events |-> <<>>, done |-> FALSE])}} : TRUE

\* A consumer that forgets the incomplete line when the next chunk comes.
ReaderChunkDropsPartial(buf, st, chunk) ==
  LineLoop(Decode(st, chunk).st, Split(Decode(st, chunk).text))

\* One turn of the while loop for a chunk: decode in stream mode, append to
\* the buffer, split, keep the last piece as the new buffer, run the lines.
ReaderChunk(buf, st, chunk) ==
  CHOOSE out \in {LineLoop(d.st, Split(buf \o d.text)) : d \in {Decode(st, chunk)}} : TRUE

\* A consumer that goes on reading after [DONE].
ReturnsNever(r) == FALSE

\* 'onDone(); return' in the [DONE] branch leaves streamChat.
Returns(r) == r.done

\* The lines a response body is made of, by name.
LineText(name) ==
  CASE name = "a" -> DataPrefix \o JsonHead \o <<97>> \o JsonTail
    [] name = "e" -> DataPrefix \o JsonHead \o <<233>> \o JsonTail \o <<13>>
    [] name = "role" -> <<32>> \o DataPrefix \o JsonNoContent
    [] name = "empty" -> DataPrefix \o JsonHead \o JsonTail
    [] name = "cut" -> DataPrefix \o JsonHead \o <<97>>
    [] name = "done" -> DataPrefix \o DoneText
    [] name = "blank" -> <<>>

\* The bodies: lists of lines, joined with '\n'; the last line has no '\n'
\* after it (a body that ends in '\n' ends with a blank line).
SseBodies ==
  { <<"a", "blank", "e", "blank", "done", "blank", "blank">>,
    <<"role", "cut", "e", "blank">>,
    <<"e", "done", "a", "blank">>,
    <<"a", "e">>,
    <<"empty", "a", "done">> }

\* The bytes of a body: its lines in UTF-8, a '\n' byte between two lines.
RECURSIVE BodyBytes(_)
BodyBytes(lines) ==
  IF Len(lines) = 1 THEN Encode(LineText(lines[1]))
  ELSE Encode(LineText(Head(lines))) \o <<NewLine>> \o BodyBytes(Tail(lines))

\* streamChat is called; fetch is pending.
InitConsumer ==
  /\ keyPresent = TRUE /\ route = "/api/chat/stream" /\ method = "POST"
  /\ body = NoValue /\ verr = NoVerdict /\ errMessage = NoValue
  /\ payload = NoValue /\ payload2 = NoValue
  /\ timer = "none" /\ gate = "none"
  /\ closedIn = "none"
  /\ tasks = [t \in Tasks |-> NoTask]
  /\ granted = [k \in Keys |-> 0]
  /\ variant = "server"
  /\ maxRetries = DefaultRetries(variant)
  /\ fpc = "idle" /\ i = 0 /\ res = NoRes /\ wait = Num(0)
  /\ result = NoRes /\ requests = 0 /\ sleeps = 0
  /\ HandlerAt("idle")
  /\ PolicyIdle
  /\ now = 0 /\ calls = 0 /\ last = NoCall
  /\ rateLimits = [k \in Keys |-> NoEntry]
  /\ opened = [k \in Keys |-> NoWindow]
  /\ cpc = "fetching"
  /\ sse \in SseBodies
  /\ unread = BodyBytes(sse)
  /\ cutInChar = FALSE
  /\ buffer = <<>>
  /\ cdec = NoCarry
  /\ events = <<>>

ConsumerRest == <<fetchVars, handlerVars, limVars, policyVars, keyPresent, route, body, verr,
                  errMessage, payload, payload2, method, timer, gate, closedIn, taskVars>>

\* fetch resolves with a 200: getReader, new TextDecoder, buffer = ''.
FetchOk ==
  /\ cpc = "fetching"
  /\ cpc' = "reading"
  /\ UNCHANGED <<sse, unread, cutInChar, buffer, cdec, events, ConsumerRest>>

\* fetch resolves with another status: res.json() gives the envelope and
\* onError is called with its message, or res.json() rejects and the catch
\* block calls onError; streamChat returns.
FetchNotOk ==
  /\ cpc = "fetching"
  /\ \E parsed \in BOOLEAN :
       /\ events' = Append(events, OnError)
       /\ cpc' = "failed"
  /\ UNCHANGED <<sse, unread, cutInChar, buffer, cdec, ConsumerRest>>

\* What the catch block does with err.
Catch(name) ==
  IF name = "AbortError"
  THEN /\ cpc' = "aborted"
       /\ UNCHANGED events
  ELSE /\ cpc' = "failed"
       /\ events' = Append(events, OnError)

\* fetch rejects: the signal was aborted, or the network failed.
FetchRejects ==
  /\ cpc = "fetching"
  /\ \E name \in {"AbortError", "TypeError"} : Catch(name)
  /\ UNCHANGED <<sse, unread, cutInChar, buffer, cdec, ConsumerRest>>

\* reader.read() resolves with the next n bytes of the body.
ReaderRead ==
  /\ cpc = "reading"
  /\ unread # <<>>
  /\ \E n \in 1..Len(unread) :
       \E r \in {ReaderChunk(buffer, cdec, SubSeq(unread, 1, n))} :
       /\ unread' = SubSeq(unread, n + 1, Len(unread))
       /\ buffer' = r.buffer
       /\ cdec' = r.dec
       /\ cutInChar' = (cutInChar \/ r.dec # NoCarry)
       /\ events' = events \o r.events
       /\ cpc' = IF Returns(r) THEN "done" ELSE "reading"
  /\ UNCHANGED <<sse, ConsumerRest>>

\* reader.read() resolves with done: break, onDone().
ReaderDone ==
  /\ cpc = "reading"
  /\ unread = <<>>
  /\ events' = Append(events, OnDone)
  /\ cpc' = "done"
  /\ UNCHANGED <<sse, unread, cutInChar, buffer, cdec, ConsumerRest>>

\* reader.read() rejects: the signal was aborted, or the connection broke.
ReaderRejects ==
  /\ cpc = "reading"
  /\ \E name \in {"AbortError", "TypeError"} : Catch(name)
  /\ UNCHANGED <<sse, unread, cutInChar, buffer, cdec, ConsumerRest>>

NextConsumer ==
  \/ FetchOk
  \/ FetchNotOk
  \/ FetchRejects
  \/ ReaderRead
  \/ ReaderDone
  \/ ReaderRejects

SpecConsumer == InitConsumer /\ [][NextConsumer]_vars

(***************************************************************************)
(* Claims about streamChat, checked under SpecConsumer.                    *)
(***************************************************************************)
Terminal(e) == e.cb \in {"onDone", "onError"}

\* C33: of onDone and onError at most one is invoked, at most once, and no
\* onChunk is invoked after it.
C33_OneTerminalEventLast ==
  \A k \in 1..Len(events) : Terminal(events[k]) => k = Len(events)

\* Tokens were delivered, then the connection broke and onError was called.
C33_Witness ==
  /\ cpc = "failed"
  /\ Len(events) = 3
  /\ events[1].cb = "onChunk" /\ events[2].cb = "onChunk"
  /\ events[3] = OnError

\* The bytes read so far.
Consumed == SubSeq(BodyBytes(sse), 1, Len(BodyBytes(sse)) - Len(unread))

\* The tokens of the data lines, in the order of the lines, up to [DONE];
\* the last line, which no '\n' ends, is not complete and is not looked at.
RECURSIVE TokensOf(_, _)
TokensOf(lines, k) ==
  IF k >= Len(lines) \/ lines[k] = "done" THEN <<>>
  ELSE (CASE lines[k] = "a" -> <<OnChunk(<<97>>)>>
          [] lines[k] = "e" -> <<OnChunk(<<233>>)>>
          [] OTHER -> <<>>) \o TokensOf(lines, k + 1)

\* C38: whatever the chunks, the callbacks are those of the run that gets
\* the same bytes in one chunk, and the incomplete line and the decoder
\* state are the same too; a complete run delivers the tokens of the data
\* lines in their order up to [DONE], then onDone.
C38_ChunkingIndependent ==
  cpc \in {"reading", "done"} =>
    LET one == ReaderChunk(<<>>, NoCarry, Consumed) IN
    /\ cpc = "reading" =>
         /\ ~one.done
         /\ events = one.events
         /\ buffer = one.buffer
         /\ cdec = one.dec
    /\ cpc = "done" =>
         /\ events = IF one.done THEN one.events ELSE Append(one.events, OnDone)
         /\ events = Append(TokensOf(sse, 1), OnDone)

\* A read ended between the two bytes of a character in the middle of a
\* data line, and that line's token was delivered as one character.
C38_Witness ==
  /\ cpc = "done"
  /\ cutInChar
  /\ sse = <<"a", "blank", "e", "blank", "done", "blank", "blank">>
  /\ events = <<OnChunk(<<97>>), OnChunk(<<233>>), OnDone>>

====
